---- MODULE Spec2Model ----
(***************************************************************************)
(* State-machine model of the replay pipeline of SD-Auto: the menu loop    *)
(* (main.ts), the replay entry point generateImages, the parameter         *)
(* assembler parseAndSortImageParams, the chained PromiseQueue and the     *)
(* GenerationQueue session state (endpoints.ts, utils.ts).                 *)
(*                                                                         *)
(* Every action is one synchronous segment of the code: it starts where a  *)
(* promise resolves (a remote reply, a file operation that finished, the   *)
(* user's answer at the prompt) and runs to the next await.                *)
(***************************************************************************)
EXTENDS Naturals, Integers, Sequences, FiniteSets, TLC

(* ------------------------------ bounds --------------------------------- *)
\* sidecar files listed over all replay runs of one behaviour
MaxItems == 2
\* replay runs started in one behaviour of the menu specification
MaxRuns == 2
\* remote calls that fail in one behaviour
MaxFailures == 1
\* image files of a listing that have no sidecar
MaxExtraImages == 1
\* remote calls that fail in one behaviour of the menu specification
MenuFailures == 0

(* ----------------------- the remote service's rosters ------------------ *)
Undefined == "undefined"

\* model names the remote service knows (GET sd-models)
KnownModels == {"a", "c"}
\* model names a sidecar can resolve to; "b" is not on the remote service
ModelNames == {"a", "b", "c"}
\* the secondary decoders found in VAE_DIR
VaeRoster == {[fileName |-> "f1", hash |-> "h1"]}
\* secondary-decoder references a sidecar can carry; "hX" is in no roster
VaeRefs == {"None", "h1", "hX"}
Sentinels == {"Automatic", "None"}
Modes == {"upscale", "reproduce"}

\* percentDiff values are counted in hundredths: 15 stands for 0.15
REPROD_DIFF_TOLERANCE == 15
\* what compareImage can return for a regenerated image; NoDiff stands
\* for a compareImage that rejects (images of different sizes)
NoDiff == 0 - 1
PercentDiffs == {10, 15, 20}

(* ------------------------------ helpers -------------------------------- *)
\* String.prototype.localeCompare on the names used here, as a rank
LocaleRank(s) ==
  CASE s = "" -> 0
    [] s = "a" -> 1 [] s = "Automatic" -> 2 [] s = "b" -> 3 [] s = "c" -> 4
    [] s = "f1" -> 5 [] s = "h1" -> 6 [] s = "hX" -> 7 [] s = "None" -> 8
    [] s = "x" -> 9 [] s = "y" -> 10
    [] OTHER -> 11

LocaleCompare(s, t) ==
  IF LocaleRank(s) < LocaleRank(t) THEN -1
  ELSE IF LocaleRank(s) > LocaleRank(t) THEN 1 ELSE 0

\* a string is truthy unless it is empty
Truthy(s) == s # ""

\* a JSON value: a number, or an object as a function from its keys to
\* their values
Num(n) == [t |-> "num", v |-> n]
Obj(f) == [t |-> "obj", v |-> f]
Missing == [t |-> "undefined"]

\* the configuration of a tiling extension: of its fields, the flag
TiledConfig(enabled) == Obj([k \in {"enabled"} |-> enabled])

\* the comparator handed to Array.prototype.sort by parseAndSortImageParams
CompareParams(a, b) ==
  LET modelSort == LocaleCompare(a.model, b.model)
  IN IF modelSort # 0 THEN modelSort
     ELSE IF Truthy(a.vaeHash) /\ ~Truthy(b.vaeHash) THEN 0 - 1
     ELSE IF ~Truthy(a.vaeHash) /\ Truthy(b.vaeHash) THEN 1
     ELSE IF Truthy(a.vaeHash) /\ Truthy(b.vaeHash)
          THEN LocaleCompare(a.vaeHash, b.vaeHash)
     ELSE 0

\* x inserted behind every element that does not sort after it (stable)
RECURSIVE InsertSorted(_, _)
InsertSorted(x, s) ==
  IF s = <<>> THEN <<x>>
  ELSE IF CompareParams(x, Head(s)) < 0 THEN <<x>> \o s
       ELSE <<Head(s)>> \o InsertSorted(x, Tail(s))

\* Array.prototype.sort with CompareParams (stable in Node)
RECURSIVE SortParams(_)
SortParams(s) ==
  IF s = <<>> THEN <<>>
  ELSE InsertSorted(s[Len(s)], SortParams(SubSeq(s, 1, Len(s) - 1)))

\* the elements of s that satisfy the flag sequence keep
RECURSIVE FilterTrue(_)
FilterTrue(s) ==
  IF s = <<>> THEN <<>>
  ELSE IF Head(s) THEN <<Head(s)>> \o FilterTrue(Tail(s))
       ELSE FilterTrue(Tail(s))

CountTrue(s) == Cardinality({i \in DOMAIN s : s[i]})

(* ------------------------------- state --------------------------------- *)
VARIABLES
  remoteModel,    \* the remote service's active checkpoint (a model name)
  remoteVAE,      \* the remote service's sd_vae option
  activeModel,    \* GenQueue.activeModel
  activeVAEHash,  \* GenQueue.activeVAEHash
  chain,          \* GenQueue.queue: the functions added and not yet settled
  runs,           \* one record per generateImages call, in call order
  prompts,        \* main() invocations waiting at the menu prompt
  failures,       \* remote calls that have failed so far
  doneLog,        \* every mainEmitter.emit("done"), in order
  log,            \* what the queued functions did, in order
  cap,            \* the bounds of this behaviour (never changes)
  call,           \* the last call of a function of the assembler: its
                  \* arguments and what it returned
  ovt,            \* createOverridesTree: the call in progress
  hook            \* the exit hook: where it is and what it found

\* the variables of the parameter assembler's functions taken alone, and
\* of the exit hook
asmVars == <<call, ovt, hook>>

vars == <<remoteModel, remoteVAE, activeModel, activeVAEHash, chain, runs,
          prompts, failures, doneLog, log, cap, call, ovt, hook>>

\* the variables of the replay runs
runVars == <<remoteModel, remoteVAE, activeModel, activeVAEHash, chain, runs,
             prompts, failures, doneLog, log, cap>>

\* the exit hook is registered and the process lives
Armed == [pc |-> "armed", queued |-> 0, interrupt |-> "none"]

\* the state after module load: main() is at its prompt, GenQueue is new
Start ==
  /\ remoteModel \in KnownModels
  /\ remoteVAE \in {"None", "f1"}
  /\ activeModel = "null"
  /\ activeVAEHash = "null"
  /\ chain = <<>>
  /\ runs = <<>>
  /\ prompts = 1
  /\ failures = 0
  /\ doneLog = <<>>
  /\ log = <<>>
  /\ call = [fn |-> "none"]
  /\ ovt = [phase |-> "idle"]
  /\ hook = Armed

\* one replay run over any sidecars
Init ==
  /\ Start
  /\ cap = [runs |-> 1, items |-> MaxItems, fails |-> MaxFailures,
            extra |-> MaxExtraImages, modes |-> Modes, vaes |-> VaeRefs,
            faces |-> {FALSE}, diffs |-> {10},
            tiled |-> {TiledConfig(FALSE)}]

\* one replay run over any sidecars, in a listing without stray images
InitVae ==
  /\ Start
  /\ cap = [runs |-> 1, items |-> MaxItems, fails |-> MaxFailures,
            extra |-> 0, modes |-> Modes, vaes |-> VaeRefs,
            faces |-> {FALSE}, diffs |-> {10},
            tiled |-> {TiledConfig(FALSE)}]

\* one replay run in a listing without stray images, that the process
\* may not outlive
InitExit ==
  /\ Start
  /\ cap = [runs |-> 1, items |-> MaxItems, fails |-> MaxFailures,
            extra |-> 0, modes |-> Modes, vaes |-> VaeRefs,
            faces |-> {FALSE}, diffs |-> {10},
            tiled |-> {TiledConfig(FALSE)}]

\* one replay run in a listing without stray images, over sidecars that
\* may be parsed without a configuration of the tiling extensions
InitTiled ==
  /\ Start
  /\ cap = [runs |-> 1, items |-> MaxItems, fails |-> MaxFailures,
            extra |-> 0, modes |-> Modes, vaes |-> {"None"},
            faces |-> {FALSE}, diffs |-> {10},
            tiled |-> {Missing, TiledConfig(FALSE)}]

\* one replay run over a single sidecar that may ask for face restoration
InitSteps ==
  /\ Start
  /\ cap = [runs |-> 1, items |-> 1, fails |-> MaxFailures,
            extra |-> MaxExtraImages, modes |-> Modes, vaes |-> VaeRefs,
            faces |-> BOOLEAN, diffs |-> {10, NoDiff},
            tiled |-> {TiledConfig(FALSE)}]

\* one replay run over one more sidecar, none of which names a secondary
\* decoder
InitLong ==
  /\ Start
  /\ cap = [runs |-> 1, items |-> MaxItems + 1, fails |-> MaxFailures,
            extra |-> MaxExtraImages, modes |-> Modes, vaes |-> {"None"},
            faces |-> {FALSE}, diffs |-> {10},
            tiled |-> {TiledConfig(FALSE)}]

\* several runs, chained in one answer or selected at a later prompt, over
\* listings without stray images
InitMenu ==
  /\ Start
  /\ cap = [runs |-> MaxRuns, items |-> MaxItems, fails |-> MenuFailures,
            extra |-> 0, modes |-> Modes, vaes |-> {"None"},
            faces |-> {FALSE}, diffs |-> {10},
            tiled |-> {TiledConfig(FALSE)}]

\* one replay run over sidecars that may ask for face restoration, with
\* every outcome of the comparison of a reproduced image
InitReplay ==
  /\ Start
  /\ cap = [runs |-> 1, items |-> MaxItems, fails |-> MaxFailures,
            extra |-> 0, modes |-> Modes, vaes |-> {"None"},
            faces |-> BOOLEAN, diffs |-> PercentDiffs \cup {NoDiff},
            tiled |-> {TiledConfig(FALSE)}]

(* ------------------------------ the menu ------------------------------- *)
RECURSIVE ListedUpTo(_)
ListedUpTo(i) == IF i = 0 THEN 0 ELSE runs[i].listed + ListedUpTo(i - 1)

\* sidecars listed by the runs started so far
ItemsListed == ListedUpTo(Len(runs))

\* mainEmitter.emit("done"): the listener re-enters main() after a timeout
EmitDone(r, src) ==
  /\ doneLog' = Append(doneLog, [run |-> r, src |-> src])
  /\ prompts' = prompts + 1

\* a generateImages call entered: listImageAndParamFileNames has returned
\* params (per sidecar: is there an image of the same name) and the number
\* of images; generateImages awaits refreshModels
NewRun(mode, params, extra, rest) ==
  [mode |-> mode, phase |-> "refresh", params |-> params,
   listed |-> Len(params), nImages |-> CountTrue(params) + extra,
   rdModel |-> "pending", rdVAE |-> "pending", asm |-> "todo",
   items |-> <<>>, completedCount |-> 0, totalCount |-> 0, rest |-> rest]

Listings(room) == UNION {[1..n -> BOOLEAN] : n \in 0..room}

\* main(): the user answers the prompt with a chain of replay operations;
\* the first one is started
Select ==
  /\ prompts > 0
  /\ Len(runs) < cap.runs
  /\ \E n \in 1..(cap.runs - Len(runs)) :
     \E sel \in [1..n -> cap.modes] :
     \E params \in Listings(cap.items - ItemsListed) :
     \E extra \in 0..cap.extra :
        runs' = Append(runs, NewRun(sel[1], params, extra, Tail(sel)))
  /\ prompts' = prompts - 1
  /\ UNCHANGED <<remoteModel, remoteVAE, activeModel, activeVAEHash, chain,
                 failures, doneLog, log, cap, asmVars>>

\* main(): the for loop over the chained selections goes on once the
\* generateImages call of the previous selection has returned
ChainNext(r) ==
  /\ runs[r].phase \in {"enqueued", "aborted"}
  /\ runs[r].rest # <<>>
  /\ Len(runs) < cap.runs
  /\ \E params \in Listings(cap.items - ItemsListed) :
     \E extra \in 0..cap.extra :
        runs' = Append([runs EXCEPT ![r].rest = <<>>],
                       NewRun(Head(runs[r].rest), params, extra,
                              Tail(runs[r].rest)))
  /\ UNCHANGED <<remoteModel, remoteVAE, activeModel, activeVAEHash, chain,
                 prompts, failures, doneLog, log, cap, asmVars>>

(* ------------------------- generateImages: start ----------------------- *)
\* a remote call may fail while the failure budget lasts
Outcomes == IF failures < cap.fails THEN {TRUE, FALSE} ELSE {TRUE}
Fail(ok) == failures' = IF ok THEN failures ELSE failures + 1

\* refreshModels: POST refresh-checkpoints has answered; a failed call only
\* skips a console line, so its outcome is not distinguished
RefreshReply(r) ==
  /\ runs[r].phase = "refresh"
  /\ runs' = [runs EXCEPT ![r].phase = "reading"]
  /\ UNCHANGED <<remoteModel, remoteVAE, activeModel, activeVAEHash, chain,
                 prompts, failures, doneLog, log, cap, asmVars>>

\* getActiveModel: GET options, then listModels().find by hash. A failed
\* GET options yields undefined; a failed listModels makes .find throw, the
\* Promise.all of generateImages rejects and its catch ends the call
ReadActiveModel(r) ==
  /\ runs[r].phase = "reading"
  /\ runs[r].rdModel = "pending"
  /\ \E out \in {"ok"} \cup
                 (IF failures < cap.fails THEN {"noOptions", "noRoster"}
                  ELSE {}) :
       /\ Fail(out = "ok")
       /\ runs' = [runs EXCEPT ![r] =
            IF out = "noRoster" THEN [@ EXCEPT !.phase = "aborted"]
            ELSE [@ EXCEPT !.rdModel =
                    IF out = "ok" THEN remoteModel ELSE Undefined]]
  /\ UNCHANGED <<remoteModel, remoteVAE, activeModel, activeVAEHash, chain,
                 prompts, doneLog, log, cap, asmVars>>

\* getActiveVAE: GET options, the sd_vae option (a name, not a hash)
ReadActiveVAE(r) ==
  /\ runs[r].phase = "reading"
  /\ runs[r].rdVAE = "pending"
  /\ \E ok \in Outcomes :
       /\ Fail(ok)
       /\ runs' = [runs EXCEPT ![r].rdVAE =
                     IF ok THEN remoteVAE ELSE Undefined]
  /\ UNCHANGED <<remoteModel, remoteVAE, activeModel, activeVAEHash, chain,
                 prompts, doneLog, log, cap, asmVars>>

\* a pruning whose result is not taken off the list of sidecars
AsmPruneKeepsList(r) ==
  /\ runs[r].phase \in {"reading", "aborted"}
  /\ runs[r].asm = "todo"
  /\ Len(runs[r].params) > runs[r].nImages
  /\ runs' = [runs EXCEPT ![r].asm = "pruned"]
  /\ EmitDone(r, "prune")
  /\ UNCHANGED <<remoteModel, remoteVAE, activeModel, activeVAEHash, chain,
                 failures, log, cap, asmVars>>

\* parseAndSortImageParams, first half: more sidecars than images, so
\* pruneImageParams moves the sidecars without image aside; it is called
\* without noEmit and so emits "done"
AsmPrune(r) ==
  /\ runs[r].phase \in {"reading", "aborted"}
  /\ runs[r].asm = "todo"
  /\ Len(runs[r].params) > runs[r].nImages
  /\ runs' = [runs EXCEPT ![r].params = FilterTrue(@), ![r].asm = "pruned"]
  /\ EmitDone(r, "prune")
  /\ UNCHANGED <<remoteModel, remoteVAE, activeModel, activeVAEHash, chain,
                 failures, log, cap, asmVars>>

\* what parseImageParams can make of one sidecar
ParsedFields ==
  [model : ModelNames, vaeHash : cap.vaes, restoreFaces : cap.faces,
   tiled : cap.tiled]

\* parseAndSortImageParams, second half: every remaining sidecar is parsed
\* and the records are sorted; the file-name lists are not used after it
AsmParse(r) ==
  /\ runs[r].phase = "reading"
  /\ \/ runs[r].asm = "pruned"
     \/ runs[r].asm = "todo" /\ Len(runs[r].params) <= runs[r].nImages
  /\ \E f \in [DOMAIN runs[r].params -> ParsedFields] :
       runs' = [runs EXCEPT
         ![r].asm = "done",
         ![r].params = <<>>,
         ![r].nImages = 0,
         ![r].items = SortParams(
            [i \in DOMAIN runs[r].params |->
               [model |-> f[i].model, vaeHash |-> f[i].vaeHash,
                restoreFaces |-> f[i].restoreFaces,
                tiledDiffusion |-> f[i].tiled,
                tiledVAE |-> f[i].tiled,
                hasImage |-> runs[r].params[i]]])]
  /\ UNCHANGED <<remoteModel, remoteVAE, activeModel, activeVAEHash, chain,
                 prompts, failures, doneLog, log, cap, asmVars>>

\* a queued function of run r for the record at list position i; image,
\* diff and folder are the locals of txt2Img and reproduce / upscale
Queued(r, i) ==
  [run |-> r, idx |-> i, pc |-> "queued", image |-> "", diff |-> 0,
   folder |-> ""]

\* the records queued from the last to the first
EnqueueReversed(q, r, n) == q \o [i \in 1..n |-> Queued(r, n + 1 - i)]

\* PromiseQueue.add for every record, in list order
Enqueue(q, r, n) == q \o [i \in 1..n |-> Queued(r, i)]

\* generateImages after its Promise.all: the session state is set from the
\* values read (the reference read is not used again), the counters are
\* created and every item is queued
RunEnqueue(r) ==
  /\ runs[r].phase = "reading"
  /\ runs[r].rdModel # "pending"
  /\ runs[r].rdVAE # "pending"
  /\ runs[r].asm = "done"
  /\ activeModel' = runs[r].rdModel
  /\ activeVAEHash' = runs[r].rdVAE
  /\ runs' = [runs EXCEPT ![r].phase = "enqueued",
                          ![r].rdVAE = "set",
                          ![r].totalCount = Len(runs[r].items)]
  /\ chain' = Enqueue(chain, r, Len(runs[r].items))
  /\ IF Len(runs[r].items) = 0
     THEN EmitDone(r, "empty")
     ELSE UNCHANGED <<prompts, doneLog>>
  /\ UNCHANGED <<remoteModel, remoteVAE, failures, log, cap, asmVars>>

(* --------------------------- the queued items -------------------------- *)
Item(t) == runs[t.run].items[t.idx]
Ev(t, ev, arg) == [run |-> t.run, idx |-> t.idx, ev |-> ev, arg |-> arg]
Remove(s, k) == SubSeq(s, 1, k - 1) \o SubSeq(s, k + 1, Len(s))

\* a queue whose add calls fn at once instead of chaining it
CanStartUnchained(k) == TRUE

\* PromiseQueue.add: this.queue = this.queue.then(fn)... - fn is called when
\* the promise of everything added before it has settled
CanStart(k) == k = 1

\* a queue that switches the model for every item
AlwaysModelSwitch(modelName, active) == TRUE

\* switchModelIfNeeded: modelName !== this.getActiveModel()
NeedsModelSwitch(modelName, active) == modelName # active

\* a queue that does not look the model up in the roster
AnyModelExists(modelName) == TRUE

\* switchModelIfNeeded: models.map((m) => m.name).includes(modelName)
ModelExists(modelName) == modelName \in KnownModels

\* switchVAEIfNeeded: vaeHash !== activeVAEHash
NeedsVaeSwitch(vaeHash, active) == vaeHash # active

\* the three calls "simplified" to the target alone
VaeCallArgDirect(pc, vaeName) == vaeName

\* setActiveVAE: the sd_vae value of its first, second and third call
VaeCallArg(pc, vaeName) == IF pc = "vae2" THEN "None" ELSE vaeName

\* switchVAEIfNeeded: the name sent to the remote service for a reference
VaeTarget(vaeHash) ==
  IF vaeHash \in Sentinels THEN vaeHash
  ELSE IF \E v \in VaeRoster : v.hash = vaeHash
       THEN (CHOOSE v \in VaeRoster : v.hash = vaeHash).fileName
       ELSE "None"

\* the unknown reference itself recorded in place of "None"
VaeRecordedAsGiven(vaeHash) == vaeHash

\* switchVAEIfNeeded: the value recorded by setActiveVAEHash
VaeRecorded(vaeHash) ==
  IF vaeHash \in Sentinels THEN vaeHash
  ELSE IF \E v \in VaeRoster : v.hash = vaeHash THEN vaeHash ELSE "None"

\* createRequest reads .enabled of tiledDiffusion and of tiledVAE, and
\* throws on one that is undefined
CreateRequestThrows(imageParams) ==
  imageParams.tiledDiffusion = Missing \/ imageParams.tiledVAE = Missing

\* createRequest / createTxt2ImgRequest: of the request body, the two
\* fields that depend on the record's flag and on the mode
CreateTxt2ImgRequest(it, mode) ==
  [restore_faces |-> it.restoreFaces, enable_hr |-> mode = "upscale"]

\* a txt2Img that posts the request as it was created
Txt2ImgDataAsCreated(req) == req

\* txt2Img: data: { ...txt2ImgRequest, restore_faces: false }
Txt2ImgData(req) == [req EXCEPT !.restore_faces = FALSE]

\* what the "txt2img" event of a queued function tells of the body posted
Txt2ImgArg(t) ==
  LET data == Txt2ImgData(CreateTxt2ImgRequest(Item(t), runs[t.run].mode))
  IN IF data.restore_faces THEN "restore_faces" ELSE ""

\* a comparison that also takes a difference equal to the tolerance
IsReproducibleInclusive(percentDiff) == percentDiff <= REPROD_DIFF_TOLERANCE

\* reproduce: isReproducible = percentDiff < REPROD_DIFF_TOLERANCE
IsReproducible(percentDiff) == percentDiff < REPROD_DIFF_TOLERANCE

\* reproduce: the folder of the classification (DIR_NAMES)
ReproduceFolder(percentDiff) ==
  IF IsReproducible(percentDiff) THEN "Reproducible" ELSE "Non-Reproducible"

\* upscale: the folder of the regenerated and of the original pair
UpscaleFolder == "Upscaled"

\* the item-level catch of the queued function: the function returns
Caught(k, evs) ==
  /\ chain' = Remove(chain, k)
  /\ log' = log \o evs \o <<Ev(chain[k], "end", "caught")>>

\* switchVAEIfNeeded up to its first await, or, with nothing to switch, on
\* to reproduce / upscale and the POST txt2img of txt2Img
AfterModelStep(k, evs) ==
  LET t == chain[k]
      it == Item(t)
  IN IF NeedsVaeSwitch(it.vaeHash, activeVAEHash)
     THEN /\ chain' = [chain EXCEPT ![k].pc = "vae1"]
          /\ log' = log \o evs \o
                    <<Ev(t, "vae", VaeCallArg("vae1", VaeTarget(it.vaeHash)))>>
     ELSE /\ chain' = [chain EXCEPT ![k].pc = "gen"]
          /\ log' = log \o evs \o <<Ev(t, "txt2img", Txt2ImgArg(t))>>

\* the queued function is called: image check, request body, and
\* switchModelIfNeeded up to its first await
ItemStart(k) ==
  LET t == chain[k]
      it == Item(t)
      start == <<Ev(t, "start", "")>>
  IN /\ t.pc = "queued"
     /\ CanStart(k)
     /\ IF ~it.hasImage \/ CreateRequestThrows(it)
        THEN Caught(k, start)
        ELSE IF NeedsModelSwitch(it.model, activeModel)
             THEN IF ~ModelExists(it.model)
                  THEN Caught(k, start)
                  ELSE /\ chain' = [chain EXCEPT ![k].pc = "model"]
                       /\ log' = log \o start \o <<Ev(t, "model", it.model)>>
             ELSE AfterModelStep(k, start)
     /\ UNCHANGED <<remoteModel, remoteVAE, activeModel, activeVAEHash, runs,
                    prompts, failures, doneLog, cap, asmVars>>

\* setActiveModel: POST options { sd_model_checkpoint } has answered;
\* switchModelIfNeeded then records the model
ModelReply(k) ==
  LET t == chain[k]
      it == Item(t)
  IN /\ t.pc = "model"
     /\ \E ok \in Outcomes :
          /\ Fail(ok)
          /\ remoteModel' = IF ok THEN it.model ELSE remoteModel
          /\ AfterModelStep(k, IF ok THEN <<>>
                                ELSE <<Ev(t, "failed", "model")>>)
     /\ activeModel' = it.model
     /\ UNCHANGED <<remoteVAE, activeVAEHash, runs, prompts, doneLog, cap, asmVars>>

\* setActiveVAE: one of its three POST options { sd_vae } has answered; a
\* failed call ends setActiveVAE; switchVAEIfNeeded then records the
\* reference and reproduce / upscale posts txt2img
VaeReply(k) ==
  LET t == chain[k]
      it == Item(t)
      target == VaeTarget(it.vaeHash)
      sent == VaeCallArg(t.pc, target)
  IN /\ t.pc \in {"vae1", "vae2", "vae3"}
     /\ \E ok \in Outcomes :
          /\ Fail(ok)
          /\ remoteVAE' = IF ok THEN sent ELSE remoteVAE
          /\ IF ok /\ t.pc = "vae1"
             THEN /\ chain' = [chain EXCEPT ![k].pc = "vae2"]
                  /\ log' = Append(log, Ev(t, "vae", VaeCallArg("vae2", target)))
                  /\ UNCHANGED activeVAEHash
             ELSE IF ok /\ t.pc = "vae2"
             THEN /\ chain' = [chain EXCEPT ![k].pc = "vae3"]
                  /\ log' = Append(log, Ev(t, "vae", VaeCallArg("vae3", target)))
                  /\ UNCHANGED activeVAEHash
             ELSE /\ activeVAEHash' = VaeRecorded(it.vaeHash)
                  /\ chain' = [chain EXCEPT ![k].pc = "gen"]
                  /\ log' = log \o (IF ok THEN <<>>
                                     ELSE <<Ev(t, "failed", "vae")>>)
                                \o <<Ev(t, "txt2img", Txt2ImgArg(t))>>
     /\ UNCHANGED <<remoteModel, activeModel, runs, prompts, doneLog, cap, asmVars>>

\* the queued function after reproduce / upscale has returned:
\* completedCount++, and on the last count removeEmptyFolders is awaited
CountStep(k, evs) ==
  LET t == chain[k]
      r == t.run
      count == runs[r].completedCount + 1
  IN /\ runs' = [runs EXCEPT ![r].completedCount = count]
     /\ IF count = runs[r].totalCount
        THEN /\ chain' = [chain EXCEPT ![k].pc = "cleanup"]
             /\ log' = log \o evs \o <<Ev(t, "count", "")>>
        ELSE /\ chain' = Remove(chain, k)
             /\ log' = log \o evs \o <<Ev(t, "count", ""), Ev(t, "end", "ok")>>

\* txt2Img returns image to reproduce / upscale: reproduce awaits
\* compareImage, upscale writes the regenerated pair
AfterTxt2Img(k, image, evs) ==
  LET t == chain[k]
  IN IF runs[t.run].mode = "reproduce"
     THEN /\ chain' = [chain EXCEPT ![k].pc = "compare", ![k].image = image]
          /\ log' = log \o evs
     ELSE /\ chain' = [chain EXCEPT ![k].pc = "write", ![k].image = image,
                                    ![k].folder = UpscaleFolder]
          /\ log' = log \o evs \o <<Ev(t, "write", UpscaleFolder)>>

\* txt2Img: POST txt2img has answered. A failure is thrown and caught by
\* reproduce / upscale, which returns normally; otherwise the image of the
\* reply is the working image, and for a record that asks for it the
\* post-pass is posted
GenReply(k) ==
  LET t == chain[k]
  IN /\ t.pc = "gen"
     /\ \E ok \in Outcomes :
          /\ Fail(ok)
          /\ IF ~ok
             THEN CountStep(k, <<Ev(t, "failed", "txt2img")>>)
             ELSE /\ IF Item(t).restoreFaces
                     THEN /\ chain' = [chain EXCEPT ![k].pc = "faces",
                                                    ![k].image = "generated"]
                          /\ log' = Append(log, Ev(t, "faces", ""))
                     ELSE AfterTxt2Img(k, "generated", <<>>)
                  /\ UNCHANGED runs
     /\ UNCHANGED <<remoteModel, remoteVAE, activeModel, activeVAEHash,
                    prompts, doneLog, cap, asmVars>>

\* a post-pass whose failure is thrown to the catch of reproduce / upscale
RestoreReplyThrowing(k) ==
  LET t == chain[k]
  IN /\ t.pc = "faces"
     /\ \E ok \in Outcomes :
          /\ Fail(ok)
          /\ IF ok
             THEN AfterTxt2Img(k, "restored", <<>>) /\ UNCHANGED runs
             ELSE CountStep(k, <<Ev(t, "failed", "faces")>>)
     /\ UNCHANGED <<remoteModel, remoteVAE, activeModel, activeVAEHash,
                    prompts, doneLog, cap, asmVars>>

\* restoreFaces: POST extra-single-image has answered; txt2Img takes the
\* image of a successful reply and keeps its own after a failed one
RestoreReply(k) ==
  LET t == chain[k]
  IN /\ t.pc = "faces"
     /\ \E ok \in Outcomes :
          /\ Fail(ok)
          /\ AfterTxt2Img(k, IF ok THEN "restored" ELSE t.image,
                          IF ok THEN <<>> ELSE <<Ev(t, "failed", "faces")>>)
     /\ UNCHANGED <<remoteModel, remoteVAE, activeModel, activeVAEHash, runs,
                    prompts, doneLog, cap, asmVars>>

\* reproduce: compareImage has settled. A rejection is caught by reproduce,
\* which returns normally; otherwise the regenerated pair is written to
\* the folder of the classification
CompareDone(k) ==
  LET t == chain[k]
  IN /\ t.pc = "compare"
     /\ \E percentDiff \in cap.diffs :
          IF percentDiff = NoDiff
          THEN CountStep(k, <<Ev(t, "failed", "compare")>>)
          ELSE /\ chain' = [chain EXCEPT
                              ![k].pc = "write",
                              ![k].diff = percentDiff,
                              ![k].folder = ReproduceFolder(percentDiff)]
               /\ log' = Append(log, Ev(t, "write",
                                        ReproduceFolder(percentDiff)))
               /\ UNCHANGED runs
     /\ UNCHANGED <<remoteModel, remoteVAE, activeModel, activeVAEHash,
                    prompts, failures, doneLog, cap, asmVars>>

\* a reproduce / upscale that returns after the write, without the move
WriteDoneReturns(k) ==
  /\ chain[k].pc = "write"
  /\ CountStep(k, <<>>)
  /\ UNCHANGED <<remoteModel, remoteVAE, activeModel, activeVAEHash,
                 prompts, failures, doneLog, cap, asmVars>>

\* writeFilesToFolder has finished; the original pair is moved to the
\* same folder
WriteDone(k) ==
  LET t == chain[k]
  IN /\ t.pc = "write"
     /\ chain' = [chain EXCEPT ![k].pc = "move"]
     /\ log' = Append(log, Ev(t, "move", t.folder))
     /\ UNCHANGED <<remoteModel, remoteVAE, activeModel, activeVAEHash, runs,
                    prompts, failures, doneLog, cap, asmVars>>

\* moveFilesToFolder has finished; reproduce / upscale returns
MoveDone(k) ==
  /\ chain[k].pc = "move"
  /\ CountStep(k, <<>>)
  /\ UNCHANGED <<remoteModel, remoteVAE, activeModel, activeVAEHash,
                 prompts, failures, doneLog, cap, asmVars>>

\* removeEmptyFolders has finished on the last count: "done" is emitted
CleanupDone(k) ==
  LET t == chain[k]
  IN /\ t.pc = "cleanup"
     /\ chain' = Remove(chain, k)
     /\ log' = Append(log, Ev(t, "end", "ok"))
     /\ EmitDone(t.run, "complete")
     /\ UNCHANGED <<remoteModel, remoteVAE, activeModel, activeVAEHash, runs,
                    failures, cap, asmVars>>

(* --------------------------- the specification ------------------------- *)
Next ==
  \/ Select
  \/ \E r \in DOMAIN runs :
       \/ RefreshReply(r)
       \/ ReadActiveModel(r)
       \/ ReadActiveVAE(r)
       \/ AsmPrune(r)
       \/ AsmParse(r)
       \/ RunEnqueue(r)
  \/ \E k \in DOMAIN chain :
       \/ ItemStart(k)
       \/ ModelReply(k)
       \/ VaeReply(k)
       \/ GenReply(k)
       \/ CompareDone(k)
       \/ WriteDone(k)
       \/ MoveDone(k)
       \/ CleanupDone(k)

\* util.inspect of the promise of the queue, as the sequence of its words
InspectQueue ==
  IF chain = <<>> THEN <<"Promise", "{", "undefined", "}">>
  ELSE <<"Promise", "{", "<", "pending", ">", "}">>

\* a queue that always takes itself for pending
IsPendingAlways == TRUE

\* PromiseQueue.isPending: inspect(this.queue).includes("pending")
IsPending == \E i \in DOMAIN InspectQueue : InspectQueue[i] = "pending"

\* the process is told to end and async-exit-hook calls the hook: with a
\* pending queue POST interrupt is awaited, otherwise callback is called
\* and the process exits
ExitHook ==
  /\ hook.pc = "armed"
  /\ hook' = IF IsPending
             THEN [pc |-> "interrupting", queued |-> Len(chain),
                   interrupt |-> "sent"]
             ELSE [pc |-> "exited", queued |-> Len(chain),
                   interrupt |-> "none"]
  /\ UNCHANGED <<runVars, call, ovt>>

\* interruptGeneration: POST interrupt has answered, with or without
\* success; callback is called and the process exits
InterruptReply ==
  /\ hook.pc = "interrupting"
  /\ hook' = [hook EXCEPT !.pc = "exited", !.interrupt = "answered"]
  /\ UNCHANGED <<runVars, call, ovt>>

\* the replay goes on until the process has exited
NextExit ==
  \/ hook.pc # "exited" /\ Next
  \/ ExitHook
  \/ InterruptReply

NextMenu ==
  \/ Next
  \/ \E r \in DOMAIN runs : ChainNext(r)

NextReplay ==
  \/ Next
  \/ \E k \in DOMAIN chain : RestoreReply(k)

Spec == Init /\ [][Next]_vars
SpecLong == InitLong /\ [][Next]_vars
SpecVae == InitVae /\ [][Next]_vars
SpecExit == InitExit /\ [][NextExit]_vars
SpecTiled == InitTiled /\ [][Next]_vars
SpecSteps == InitSteps /\ [][NextReplay]_vars
\* remote calls, file operations and timers answer
SpecStepsFair == SpecSteps /\ WF_vars(NextReplay)
SpecMenu == InitMenu /\ [][NextMenu]_vars
SpecReplay == InitReplay /\ [][NextReplay]_vars

(* ------------------------------ properties ----------------------------- *)
\* the events of item i of run r, and the arguments of its events of a kind
ItemLog(r, i) == SelectSeq(log, LAMBDA e : e.run = r /\ e.idx = i)
ItemArgs(r, i, ev) ==
  LET evs == SelectSeq(log, LAMBDA e : e.run = r /\ e.idx = i /\ e.ev = ev)
  IN [p \in DOMAIN evs |-> evs[p].arg]
HasEv(r, i, ev) == \E p \in DOMAIN log :
                     log[p].run = r /\ log[p].idx = i /\ log[p].ev = ev
Started(k) == chain[k].pc # "queued"
Pending(r) == \E k \in DOMAIN chain : chain[k].run = r
\* every queued function of run r has been called and has returned
Attempted(r) == runs[r].phase = "enqueued" /\ ~Pending(r)
DoneCount(r) == Cardinality({p \in DOMAIN doneLog : doneLog[p].run = r})

\* C1: queued functions run strictly one at a time: at most one of them is
\* between its first step and its return, and a function starts only right
\* after the return of the one before it, so no two items have a switch
\* call or a generation request in flight together
C1_OneAtATime ==
  /\ \A j, k \in DOMAIN chain : Started(j) /\ Started(k) => j = k
  /\ \A p \in 2..Len(log) : log[p].ev = "start" => log[p - 1].ev = "end"
  /\ \A p \in DOMAIN log :
       log[p].ev \notin {"start", "end"} /\ p < Len(log)
         => log[p + 1].run = log[p].run /\ log[p + 1].idx = log[p].idx
            /\ log[p + 1].ev # "start"

\* an item has a remote call in flight after the item before it has placed
\* its files and returned
C1_Witness ==
  \E k \in DOMAIN chain : \E p \in DOMAIN log :
    /\ chain[k].pc \in {"model", "vae1", "gen"}
    /\ chain[k].idx > 1
    /\ log[p] = [run |-> chain[k].run, idx |-> chain[k].idx - 1,
                 ev |-> "end", arg |-> "ok"]
    /\ HasEv(chain[k].run, chain[k].idx - 1, "move")

\* C2: the items of a run are executed in the order of the sorted list: an
\* item starts only after every item before it in the list has started
\* and returned, whether it returned normally or through the catch;
\* nothing of an item or of a later one happens before its start, and
\* nothing of an item or of an earlier one after its return
C2_ListOrder ==
  \A q \in DOMAIN log :
    /\ log[q].ev = "start" =>
         /\ \A i \in 1..(log[q].idx - 1) :
              \E p \in 1..(q - 1) :
                /\ log[p] = [run |-> log[q].run, idx |-> i,
                             ev |-> "start", arg |-> ""]
                /\ \E o \in (p + 1)..(q - 1) :
                     /\ log[o].run = log[q].run
                     /\ log[o].idx = i
                     /\ log[o].ev = "end"
         /\ \A p \in 1..(q - 1) :
              log[p].run = log[q].run => log[p].idx < log[q].idx
    /\ log[q].ev = "end" =>
         \A p \in (q + 1)..Len(log) :
           log[p].run = log[q].run => log[p].idx > log[q].idx

\* the second item of a list is running after the first one failed
C2_Witness ==
  \E k \in DOMAIN chain : \E p \in DOMAIN log :
    /\ chain[k].idx = 2 /\ Started(k)
    /\ log[p] = [run |-> chain[k].run, idx |-> 1, ev |-> "end", arg |-> "caught"]

\* C3 (as claimed): once every item of a run has been attempted, the
\* completion counter equals the number of items and "done" has been
\* signalled, also when items ended in the item-level catch
C3_CounterAdvancesOnCatch ==
  \A r \in DOMAIN runs :
    Attempted(r) =>
      /\ runs[r].completedCount = runs[r].totalCount
      /\ \E p \in DOMAIN doneLog :
           doneLog[p].run = r /\ doneLog[p].src \in {"complete", "empty"}

\* C4 (as claimed): "done" is signalled for a run exactly once, and only
\* when the last queued item of the run has finished
C4_DoneExactlyOnce ==
  \A r \in DOMAIN runs :
    /\ DoneCount(r) <= 1
    /\ DoneCount(r) = 1 => Attempted(r)
    /\ Attempted(r) => DoneCount(r) = 1

\* the models of the sorted list of run r
RunModels(r) == [i \in DOMAIN runs[r].items |-> runs[r].items[i].model]
\* the list positions of run r for which a model-switch call was issued
ModelSwitchAt(r) ==
  LET evs == SelectSeq(log, LAMBDA e : e.run = r /\ e.ev = "model")
  IN [p \in DOMAIN evs |-> evs[p].idx]
\* the sorted list of run r has models [A, A, B] with A # B
IsAAB(r) ==
  /\ Len(runs[r].items) = 3
  /\ RunModels(r)[1] = RunModels(r)[2]
  /\ RunModels(r)[2] # RunModels(r)[3]

FailedReply(pcs) ==
  /\ chain # <<>>
  /\ chain[1].pc \in pcs
  /\ failures' = failures + 1

\* C6 (as claimed): a failed POST options call of a model switch leaves
\* the recorded active model as it was, and a failed call of a
\* secondary-decoder switch leaves the recorded active reference as it was
C6_SessionKeptOnFailedSwitch ==
  [][/\ FailedReply({"model"}) => activeModel' = activeModel
     /\ FailedReply({"vae1", "vae2", "vae3"}) => activeVAEHash' = activeVAEHash]_vars

\* C7 (as claimed): while queued items are pending, the recorded active
\* model changes only by the reply to the running item's model switch,
\* and the recorded active reference only by the end of the running
\* item's secondary-decoder switch
C7_SessionWrittenOnlyBySwitch ==
  [][chain # <<>> =>
       /\ activeModel' # activeModel =>
            /\ chain[1].pc = "model"
            /\ activeModel' = Item(chain[1]).model
       /\ activeVAEHash' # activeVAEHash =>
            /\ chain[1].pc \in {"vae1", "vae2", "vae3"}
            /\ activeVAEHash' = VaeRecorded(Item(chain[1]).vaeHash)]_vars

\* the item at list position i of run r names a model outside the roster
\* and has its image
UnknownModelItem(r, i) ==
  /\ i \in DOMAIN runs[r].items
  /\ runs[r].items[i].hasImage
  /\ ~(runs[r].items[i].model \in KnownModels)

\* C8: an item whose model is not in the roster (and so differs from the
\* active model) only goes through the catch: no switch call and no
\* generation request is issued for it, its step leaves the session state
\* and the remote state alone, and the items behind it stay queued and
\* the next one can start
C8_UnknownModelFailsItemOnly ==
  /\ [](\A r \in DOMAIN runs : \A i \in DOMAIN runs[r].items :
          UnknownModelItem(r, i) /\ HasEv(r, i, "start") =>
            /\ ItemLog(r, i) = <<[run |-> r, idx |-> i, ev |-> "start", arg |-> ""],
                                 [run |-> r, idx |-> i, ev |-> "end", arg |-> "caught"]>>
            /\ \A j \in (i + 1)..Len(runs[r].items) :
                 \/ HasEv(r, j, "start")
                 \/ \E k \in DOMAIN chain :
                      /\ chain[k].run = r /\ chain[k].idx = j
                      /\ chain[k].pc = "queued"
                      /\ k = 1 => ENABLED ItemStart(1))
  /\ [][\A r \in DOMAIN runs : \A i \in DOMAIN runs[r].items :
          /\ UnknownModelItem(r, i)
          /\ ~HasEv(r, i, "start")
          /\ HasEv(r, i, "start")'
          => /\ activeModel' = activeModel /\ activeVAEHash' = activeVAEHash
             /\ remoteModel' = remoteModel /\ remoteVAE' = remoteVAE
             /\ Len(chain') = Len(chain) - 1
             /\ \A k \in DOMAIN chain' : chain'[k].pc = "queued"]_vars

\* an item with an unknown model has failed and the item behind it has
\* submitted its generation request
C8_Witness ==
  \E r \in DOMAIN runs :
    /\ UnknownModelItem(r, 1)
    /\ HasEv(r, 1, "end")
    /\ HasEv(r, 2, "txt2img")

\* the item at position i of run r has switched the secondary decoder and
\* has gone on to its generation request
VaeSwitched(r, i) == ItemArgs(r, i, "vae") # <<>> /\ HasEv(r, i, "txt2img")
VaeTriple(r, i) ==
  LET target == VaeTarget(runs[r].items[i].vaeHash)
  IN <<target, "None", target>>

\* C9 (as claimed): every secondary-decoder switch issues exactly three
\* POST options calls, target, "None", target
C9_AlwaysThreeCalls ==
  \A r \in DOMAIN runs : \A i \in DOMAIN runs[r].items :
    VaeSwitched(r, i) => ItemArgs(r, i, "vae") = VaeTriple(r, i)

\* log positions p and q belong to the same item
SameItem(p, q) == log[p].run = log[q].run /\ log[p].idx = log[q].idx
\* position p holds a switch call of the item of position q
IsVaeCall(p, q) == p \in DOMAIN log /\ log[p].ev = "vae" /\ SameItem(p, q)
\* the number of the switch call at position p within its run of calls
\* that directly follow one another
CallNo(p) ==
  IF ~IsVaeCall(p - 1, p) THEN 1
  ELSE IF ~IsVaeCall(p - 2, p) THEN 2
  ELSE IF ~IsVaeCall(p - 3, p) THEN 3 ELSE 4
VaePc(n) == CASE n = 1 -> "vae1" [] n = 2 -> "vae2" [] OTHER -> "vae3"

\* C9 (amended): a secondary-decoder switch issues the POST options calls
\* target, "None", target in this order, one after the reply to the other,
\* and stops after a call that failed; without a failed call it issues
\* exactly three. The recorded reference is still the previous one while a
\* call is outstanding, and the generation request comes after the calls
C9_ThreeCallsUnlessFailed ==
  /\ \A p \in DOMAIN log :
       /\ log[p].ev = "vae" =>
            LET n == CallNo(p)
            IN /\ n <= 3
               /\ log[p].arg = VaeTriple(log[p].run, log[p].idx)[n]
               /\ n = 1 => \A q \in 1..(p - 1) : ~IsVaeCall(q, p)
               /\ IF p = Len(log)
                  THEN /\ chain # <<>>
                       /\ chain[1].run = log[p].run
                       /\ chain[1].idx = log[p].idx
                       /\ chain[1].pc = VaePc(n)
                  ELSE /\ SameItem(p, p + 1)
                       /\ \/ log[p + 1].ev = "vae"
                          \/ log[p + 1].ev = "txt2img" /\ n = 3
                          \/ /\ log[p + 1].ev = "failed"
                             /\ log[p + 1].arg = "vae"
                             /\ p + 2 <= Len(log)
                             /\ SameItem(p, p + 2)
                             /\ log[p + 2].ev = "txt2img"
       /\ log[p].ev = "txt2img" =>
            \A q \in (p + 1)..Len(log) : ~IsVaeCall(q, p)
  /\ \A k \in DOMAIN chain :
       chain[k].pc \in {"vae1", "vae2", "vae3"} =>
         /\ activeVAEHash # Item(chain[k]).vaeHash
         /\ log # <<>>
         /\ log[Len(log)].ev = "vae"
         /\ log[Len(log)].run = chain[k].run /\ log[Len(log)].idx = chain[k].idx
         /\ chain[k].pc = VaePc(CallNo(Len(log)))

\* an item has switched to a decoder of the roster with three calls and
\* has submitted its generation request
C9_Witness ==
  \E r \in DOMAIN runs : \E i \in DOMAIN runs[r].items :
    /\ runs[r].items[i].vaeHash = "h1"
    /\ HasEv(r, i, "txt2img")
    /\ ItemArgs(r, i, "vae") = <<"f1", "None", "f1">>

\* the reference of the item at position i of run r is neither a sentinel
\* nor a hash of the roster
UnknownVaeItem(r, i) ==
  /\ runs[r].items[i].vaeHash \notin Sentinels
  /\ ~(\E v \in VaeRoster : v.hash = runs[r].items[i].vaeHash)

\* C10: for an item whose reference is neither a sentinel nor a hash of
\* the roster, the switch calls carry "None", "None" is the recorded
\* reference when its generation request is submitted, and the item goes
\* on to that request: with its image present and its model in the roster
\* it does not end in the catch
C10_UnknownVaeFallsBackToNone ==
  /\ \A p \in DOMAIN log :
       LET r == log[p].run
           i == log[p].idx
       IN UnknownVaeItem(r, i) =>
            /\ log[p].ev = "vae" => log[p].arg = "None"
            /\ log[p].ev = "txt2img" => \E q \in 1..(p - 1) : IsVaeCall(q, p)
            /\ log[p].ev = "end" /\ runs[r].items[i].hasImage
                 /\ ModelExists(runs[r].items[i].model)
                 => /\ log[p].arg # "caught"
                    /\ HasEv(r, i, "txt2img")
  /\ \A k \in DOMAIN chain :
       UnknownVaeItem(chain[k].run, chain[k].idx) /\ chain[k].pc = "gen"
         => activeVAEHash = "None"

\* the generation request of an item with an unknown reference is in
\* flight after a switch to "None"
C10_Witness ==
  \E k \in DOMAIN chain :
    /\ UnknownVaeItem(chain[k].run, chain[k].idx)
    /\ chain[k].pc = "gen"
    /\ ItemArgs(chain[k].run, chain[k].idx, "vae") = <<"None", "None", "None">>
    /\ activeVAEHash = "None"

\* the record of the item an event of the log belongs to
EvItem(p) == runs[log[p].run].items[log[p].idx]

\* C11: every generation request submitted by the queue carries
\* restore_faces = false, whatever the flag of the item's record
C11_RestoreFacesNeverSent ==
  \A p \in DOMAIN log : log[p].ev = "txt2img" => log[p].arg = ""

\* the generation request of a record that asks for face restoration has
\* been submitted
C11_Witness ==
  \E p \in DOMAIN log :
    /\ log[p].ev = "txt2img"
    /\ EvItem(p).restoreFaces
    /\ log[p].arg = ""

\* the events of the item of position p that follow position p
Later(p) == {q \in (p + 1)..Len(log) : SameItem(p, q)}

\* the first of a non-empty set of positions
First(ps) == CHOOSE q \in ps : \A x \in ps : q <= x

\* C12: after a failed post-pass call the item goes on with the image of
\* the generation reply: an upscale item writes it at once, a reproduce
\* item compares it; no catch is entered for the failed call, and the
\* item is placed, counted and ended like any other
C12_FailedPostPassKeepsImage ==
  \A p \in DOMAIN log :
    log[p].ev = "failed" /\ log[p].arg = "faces" =>
      /\ \A k \in DOMAIN chain :
           chain[k].run = log[p].run /\ chain[k].idx = log[p].idx
             => /\ chain[k].image = "generated"
                /\ chain[k].pc \in {"compare", "write", "move", "cleanup"}
      /\ runs[log[p].run].mode = "upscale"
           => /\ p < Len(log)
              /\ log[p + 1] = [log[p] EXCEPT !.ev = "write",
                                             !.arg = UpscaleFolder]
      /\ Later(p) # {}
           => LET q == First(Later(p))
              IN \/ log[q].ev = "write"
                 \/ log[q].ev = "failed" /\ log[q].arg = "compare"
      /\ \A q \in Later(p) :
           /\ log[q].ev = "count"
                => \/ \E w \in Later(p) : w < q /\ log[w].ev = "move"
                   \/ \E w \in Later(p) : w < q /\ log[w].ev = "failed"
                                          /\ log[w].arg = "compare"
           /\ log[q].ev = "end" => log[q].arg = "ok"

\* an item whose post-pass call failed has been placed and counted
C12_Witness ==
  \E p \in DOMAIN log :
    /\ log[p].ev = "failed" /\ log[p].arg = "faces"
    /\ EvItem(p).restoreFaces
    /\ \E q \in Later(p) : log[q].ev = "move"
    /\ \E q \in Later(p) : log[q].ev = "count"

\* C13: in reproduce mode an image is reproducible exactly when its
\* difference is below the tolerance (0.10 is, 0.15 and 0.20 are not), and
\* the regenerated pair and the original pair are both placed under the
\* folder of that classification
C13_ClassifiedBelowTolerance ==
  /\ REPROD_DIFF_TOLERANCE = 15
  /\ \A k \in DOMAIN chain :
       LET t == chain[k]
           wrote == {p \in DOMAIN log : log[p].ev = "write"
                       /\ log[p].run = t.run /\ log[p].idx = t.idx}
           moved == {p \in DOMAIN log : log[p].ev = "move"
                       /\ log[p].run = t.run /\ log[p].idx = t.idx}
       IN runs[t.run].mode = "reproduce"
            /\ (t.pc \in {"write", "move"} \/ t.folder # "") =>
              /\ t.diff = 10 => t.folder = "Reproducible"
              /\ t.diff \in {15, 20} => t.folder = "Non-Reproducible"
              /\ t.folder \in {"Reproducible", "Non-Reproducible"}
              /\ wrote # {} /\ \A p \in wrote : log[p].arg = t.folder
              /\ \A p \in moved : log[p].arg = t.folder
              /\ t.pc = "move" => moved # {}
  /\ \A p \in DOMAIN log :
       log[p].ev = "move" =>
         \E q \in 1..(p - 1) :
           /\ SameItem(p, q)
           /\ log[q].ev = "write"
           /\ log[q].arg = log[p].arg

\* a reproduce item whose difference equals the tolerance has both pairs
\* under the folder of the non-reproducible images
C13_Witness ==
  \E k \in DOMAIN chain :
    /\ runs[chain[k].run].mode = "reproduce"
    /\ chain[k].pc = "move"
    /\ chain[k].diff = REPROD_DIFF_TOLERANCE
    /\ chain[k].folder = "Non-Reproducible"
    /\ HasEv(chain[k].run, chain[k].idx, "move")

(* ---------------- the functions of the client and the assembler -------- *)
\* sidecars handed to one call of parseAndSortImageParams
MaxSidecars == 3

\* no replay run: the state in which a function is called on its own
Quiet ==
  /\ remoteModel = "a"
  /\ remoteVAE = "None"
  /\ activeModel = "null"
  /\ activeVAEHash = "null"
  /\ chain = <<>>
  /\ runs = <<>>
  /\ prompts = 1
  /\ failures = 0
  /\ doneLog = <<>>
  /\ log = <<>>
  /\ cap = [runs |-> 0, items |-> 0, fails |-> 0, extra |-> 0,
            modes |-> {}, vaes |-> {}, faces |-> {}, diffs |-> {},
            tiled |-> {}]

\* a text as the sequence of its words; String.prototype.includes on it
Includes(text, word) == \E i \in DOMAIN text : text[i] = word

\* the message apiCall puts in place of a refused connection
NotConnected ==
  <<"Automatic1111", "server", "is", "not", "connected.", "Start", "server",
    "to", "use", "this", "command.">>

\* err.stack: the message of the error and where it was thrown
Stack(message) == <<"Error:">> \o message \o <<"at", "axios">>

\* what the axios call of apiCall can do: resolve with a response or
\* reject with an error
AxiosOutcomes ==
  {[ok |-> TRUE, data |-> d] : d \in {"data", "undefined"}}
    \cup {[ok |-> FALSE, message |-> m, stack |-> Stack(m)] :
            m \in {<<"connect", "ECONNREFUSED", "127.0.0.1:7860">>,
                   <<"Request", "failed", "with", "status", "code", "500">>,
                   <<"timeout", "of", "0ms", "exceeded">>}}

\* an apiCall that throws every failure
ApiCallResultThrowing(outcome, withThrow) ==
  IF outcome.ok
  THEN [kind |-> "return",
        value |-> [success |-> TRUE, data |-> outcome.data]]
  ELSE [kind |-> "throw",
        value |-> IF Includes(outcome.message, "ECONNREFUSED")
                  THEN NotConnected ELSE outcome.stack]

\* apiCall: what the call returns or throws
ApiCallResult(outcome, withThrow) ==
  IF outcome.ok
  THEN [kind |-> "return",
        value |-> [success |-> TRUE, data |-> outcome.data]]
  ELSE LET errMsg == IF Includes(outcome.message, "ECONNREFUSED")
                     THEN NotConnected ELSE outcome.stack
       IN IF withThrow
          THEN [kind |-> "throw", value |-> errMsg]
          ELSE [kind |-> "return",
                value |-> [success |-> FALSE, error |-> errMsg]]

\* one call of apiCall
ApiCall ==
  /\ call.fn = "none"
  /\ \E outcome \in AxiosOutcomes, withThrow \in BOOLEAN :
       call' = [fn |-> "apiCall",
                arg |-> [outcome |-> outcome, withThrow |-> withThrow],
                res |-> ApiCallResult(outcome, withThrow)]
  /\ UNCHANGED <<runVars, ovt, hook>>

\* the models of GET sd-models as parseImageParams receives them
Models == {[name |-> "a", hash |-> "ha"], [name |-> "c", hash |-> "hc"]}

\* the parameters of a sidecar text the model follows; a text is a function
\* from the names of the parameters it holds to their raw values
TextParams ==
  {"Model", "Model hash", "Seed", "Steps", "CFG scale", "Size", "vae",
   "Face restoration"}
RawValues(name) ==
  CASE name = "Model" -> {"b"}
    [] name = "Model hash" -> {"ha", "hz"}
    [] name = "Seed" -> {"7", "abc"}
    [] name = "Steps" -> {"20"}
    [] name = "CFG scale" -> {"7"}
    [] name = "Size" -> {"512x512", "big"}
    [] name = "vae" -> {"x", "y"}
    [] OTHER -> {"GFPGAN"}
Texts ==
  {[n \in D |-> CASE n = "Model hash" -> pick.hash
                   [] n = "Seed" -> pick.seed
                   [] n = "vae" -> pick.vae
                   [] n = "Size" -> pick.size
                   [] OTHER -> CHOOSE v \in RawValues(n) : TRUE] :
     D \in SUBSET TextParams,
     pick \in [hash : RawValues("Model hash"), seed : RawValues("Seed"),
               vae : RawValues("vae"), size : RawValues("Size")]}

\* the fields of Txt2ImgOverrides the model follows, and the field of the
\* record each of them sets
OverrideKeys == {"model", "seed", "steps", "vae", "restoreFaces"}
RecordField(key) == IF key = "vae" THEN "vaeHash" ELSE key
OverrideValue(key) ==
  CASE key = "model" -> "c"
    [] key = "seed" -> "1"
    [] key = "steps" -> "30"
    [] key = "vae" -> "h1"
    [] OTHER -> TRUE
OverrideSets == {[k \in K |-> OverrideValue(k)] : K \in SUBSET OverrideKeys}
NoOverrides == [k \in {} |-> ""]

\* +value is NaN for a raw value that is no numeral
IsNaN(value) == value \notin {"1", "7", "20", "30", "512"}

\* +value
ToNumber(value) == IF IsNaN(value) THEN "NaN" ELSE value

\* size.split("x").map((d) => +d)
SizeParts(size) ==
  IF size = "512x512" THEN <<ToNumber("512"), ToNumber("512")>>
  ELSE <<ToNumber(size)>>

\* parseImageParam: the value of a parameter of the text; a parameter that
\* is missing or is not the number asked for is logged by the function's
\* own catch and read as undefined
ParseImageParam(text, paramName, isNumber) ==
  IF paramName \notin DOMAIN text THEN Undefined
  ELSE IF isNumber /\ IsNaN(text[paramName]) THEN Undefined
  ELSE text[paramName]

\* remapModelName: models.find((m) => m.hash === modelHash)?.name
RemapModelName(models, modelHash) ==
  IF \E m \in models : m.hash = modelHash
  THEN (CHOOSE m \in models : m.hash = modelHash).name
  ELSE Undefined

\* overrides?.key ?? parsed
Coalesce(overrides, key, parsed) ==
  IF key \in DOMAIN overrides THEN overrides[key] ELSE parsed

\* parseImageParams: the record assembled from a text and an override set;
\* a text without "Size" throws at .split and the function returns
\* undefined
ParseImageParams(models, overrides, text) ==
  LET rawModelName ==
        Coalesce(overrides, "model", ParseImageParam(text, "Model", FALSE))
      modelHash == ParseImageParam(text, "Model hash", FALSE)
      remapped == RemapModelName(models, modelHash)
      vae == ParseImageParam(text, "vae", FALSE)
      parts == SizeParts(text["Size"])
  IN IF "Size" \notin DOMAIN text
     THEN [parsed |-> FALSE]
     ELSE [parsed |-> TRUE,
           params |->
             [model |-> IF remapped = Undefined THEN rawModelName
                        ELSE remapped,
              modelHash |-> modelHash,
              restoreFaces |->
                Coalesce(overrides, "restoreFaces",
                         "Face restoration" \in DOMAIN text),
              seed |-> Coalesce(overrides, "seed",
                                ParseImageParam(text, "Seed", TRUE)),
              steps |-> Coalesce(overrides, "steps",
                                 ParseImageParam(text, "Steps", TRUE)),
              vaeHash |-> Coalesce(overrides, "vae",
                                   IF vae = Undefined THEN "None" ELSE vae),
              cfgScale |-> ParseImageParam(text, "CFG scale", TRUE),
              width |-> parts[1],
              height |-> IF Len(parts) > 1 THEN parts[2] ELSE Undefined]]

\* one call of parseImageParams
ParseCall ==
  /\ call.fn = "none"
  /\ \E overrides \in OverrideSets, text \in Texts :
       call' = [fn |-> "parseImageParams",
                arg |-> [overrides |-> overrides, text |-> text],
                res |-> ParseImageParams(Models, overrides, text)]
  /\ UNCHANGED <<runVars, ovt, hook>>

\* the sidecars of the calls of parseAndSortImageParams: a text and the
\* override set of its directory
FullText(hash, seeded) ==
  [n \in {"Model", "Model hash", "Steps", "CFG scale", "Size"}
          \cup (IF seeded THEN {"Seed"} ELSE {}) |->
     CASE n = "Model" -> "b" [] n = "Model hash" -> hash
       [] n = "Steps" -> "20" [] n = "Size" -> "512x512" [] OTHER -> "7"]
With(text, name, value) ==
  [n \in DOMAIN text \cup {name} |-> IF n = name THEN value ELSE text[n]]
Without(text, name) == [n \in DOMAIN text \ {name} |-> text[n]]
WithVae(text, vae) ==
  [n \in DOMAIN text \cup {"vae"} |-> IF n = "vae" THEN vae ELSE text[n]]
WithoutSize(text) == [n \in DOMAIN text \ {"Size"} |-> text[n]]
Sidecars ==
  {[text |-> t, overrides |-> NoOverrides] :
     t \in UNION {{FullText(h, sd), WithVae(FullText(h, sd), "x"),
                   WithVae(FullText(h, sd), "y")} :
                    h \in {"ha", "hz"}, sd \in BOOLEAN}}
    \cup {[text |-> WithoutSize(FullText("ha", TRUE)),
           overrides |-> NoOverrides],
          [text |-> With(FullText("ha", TRUE), "Seed", "abc"),
           overrides |-> NoOverrides],
          [text |-> With(FullText("ha", TRUE), "Size", "big"),
           overrides |-> NoOverrides],
          [text |-> Without(FullText("hz", TRUE), "Model"),
           overrides |-> NoOverrides],
          [text |-> FullText("ha", FALSE),
           overrides |-> [k \in {"seed"} |-> "1"]]}
SidecarLists == UNION {[1..n -> Sidecars] : n \in 1..MaxSidecars}

\* Promise.all over the sidecars and .filter((p) => !!p)
RECURSIVE ParseAll(_)
ParseAll(sidecars) ==
  IF sidecars = <<>> THEN <<>>
  ELSE LET p == ParseImageParams(Models, Head(sidecars).overrides,
                                 Head(sidecars).text)
       IN (IF p.parsed THEN <<p.params>> ELSE <<>>)
            \o ParseAll(Tail(sidecars))

\* the comparator throws at a.model.localeCompare when the model of a is
\* undefined; a is every record but the first of the array at least once
SortThrows(records) ==
  \E i \in 2..Len(records) : records[i].model = Undefined

\* one call of parseAndSortImageParams over sidecars whose override sets
\* are given: the sorted records, or nothing when the sort has thrown
ParseAndSortCall ==
  /\ call.fn = "none"
  /\ \E sidecars \in SidecarLists :
       LET records == ParseAll(sidecars)
       IN call' = [fn |-> "parseAndSortImageParams",
                   arg |-> sidecars,
                   threw |-> SortThrows(records),
                   res |-> IF SortThrows(records) THEN <<>>
                           ELSE SortParams(records)]
  /\ UNCHANGED <<runVars, ovt, hook>>

(* --------------------------- override files --------------------------- *)
\* entries of one parsed override file
MaxEntries == 2
\* sidecar paths handed to one call of createOverridesTree
MaxPaths == 3

EmptyObject == [k \in {} |-> Missing]

\* the truthiness of a JSON value: 0 is falsy, objects are truthy
TruthyValue(val) == val.t = "obj" \/ (val.t = "num" /\ val.v # 0)

\* a key as the sequence of its names and dots; key.split(".")
Split(key) == SelectSeq(key, LAMBDA tok : tok # ".")

\* obj[k] = val
Put(obj, k, val) ==
  [x \in DOMAIN obj \cup {k} |-> IF x = k THEN val ELSE obj[x]]

\* keys.reduce((obj, k) => (obj[k] ||= {}), acc)[lastKey] = value: the
\* object reached along keys gets the value; a falsy value on the way is
\* replaced by a new object, and a step onto a truthy number throws (module
\* code is strict)
RECURSIVE AssignPath(_, _, _)
AssignPath(obj, keys, value) ==
  IF Len(keys) = 1
  THEN [ok |-> TRUE, obj |-> Put(obj, keys[1], value)]
  ELSE LET k == Head(keys)
           next == IF k \in DOMAIN obj /\ TruthyValue(obj[k])
                   THEN obj[k] ELSE Obj(EmptyObject)
       IN IF next.t # "obj"
          THEN [ok |-> FALSE, obj |-> obj]
          ELSE LET r == AssignPath(next.v, Tail(keys), value)
               IN [ok |-> r.ok, obj |-> Put(obj, k, Obj(r.obj))]

\* Object.entries(obj).reduce(..., {}) from the entry list of the object
RECURSIVE DotKeysFrom(_, _)
DotKeysFrom(acc, entries) ==
  IF entries = <<>> THEN [ok |-> TRUE, obj |-> acc]
  ELSE LET r == AssignPath(acc, Split(Head(entries).key),
                           Head(entries).value)
       IN IF r.ok THEN DotKeysFrom(r.obj, Tail(entries))
          ELSE [ok |-> FALSE, obj |-> EmptyObject]

\* dotKeysToTree: ok is false when the call throws
DotKeysToTree(entries) == DotKeysFrom(EmptyObject, entries)

\* the keys and the values of the override files of the model
FileKeys ==
  {<<"a">>, <<"a", ".", "b">>, <<"a", ".", "c">>,
   <<"a", ".", "b", ".", "c">>, <<"d">>}
FileValues == {Num(5), Num(0), Obj([k \in {"x"} |-> Num(1)])}
\* JSON.parse of a file: entries in the order of the text, no key twice
ParsedFiles ==
  {es \in UNION {[1..n -> [key : FileKeys, value : FileValues]] :
                   n \in 1..MaxEntries} :
     \A i, j \in DOMAIN es : i # j => es[i].key # es[j].key}

\* one call of dotKeysToTree
DotKeysCall ==
  /\ call.fn = "none"
  /\ \E entries \in ParsedFiles :
       call' = [fn |-> "dotKeysToTree",
                arg |-> entries,
                res |-> DotKeysToTree(entries)]
  /\ UNCHANGED <<runVars, ovt, hook>>

\* the most copies of one file that a folder holds before a move
MaxCopies == 2

\* a path: its directories, and the name cut into the base, the number of
\* a trailing " (n)" (0 without one) and the extension
FilePath(dir, base, num, ext) ==
  [dir |-> dir, base |-> base, num |-> num, ext |-> ext]
\* the newName that a caller leaves out
NoName == FilePath(<<>>, Undefined, 0, "")

\* makeFilePathInDir: path.join(dirName, path.relative(".", fileName))
MakeFilePathInDir(dirName, fileName) ==
  [fileName EXCEPT !.dir = dirName \o fileName.dir]

\* the name that moveFile makes from a taken path: the name and the
\* extension of path.parse, with the number of a trailing " (n)" raised
\* by one, or " (1)" added
SuffixedPath(newFilePath) ==
  FilePath(<<>>, newFilePath.base, newFilePath.num + 1, newFilePath.ext)

\* moveFile on a disk with the source file: the path returned and the
\* disk left; copyFile with COPYFILE_EXCL fails with EEXIST on a taken
\* path, and moveFile calls itself with the suffixed name
RECURSIVE MoveFile(_, _, _, _)
MoveFile(filePath, folderName, newName, disk) ==
  LET newFilePath ==
        MakeFilePathInDir(folderName,
                          IF newName = NoName THEN filePath ELSE newName)
  IN IF filePath = newFilePath THEN [path |-> newFilePath, disk |-> disk]
     ELSE IF newFilePath \in disk
       THEN MoveFile(filePath, folderName, SuffixedPath(newFilePath), disk)
       ELSE [path |-> newFilePath,
             disk |-> (disk \ {filePath}) \cup {newFilePath}]

\* the files moved: a sidecar of the working directory or of a folder of it
MovedFiles ==
  {FilePath(dir, "a", 0, ".txt") : dir \in {<<>>, <<"sub">>}}
\* the names given to moveFile
NewNames == {NoName, FilePath(<<>>, "a", 0, ".txt")}
\* the files that the destination folder may hold before the move
TakenPaths ==
  {FilePath(dir, "a", num, ".txt") :
     dir \in {<<"pruned">>, <<"pruned", "sub">>}, num \in 0..MaxCopies}

\* one call of moveFile into the folder of the pruned sidecars
MoveFileCall ==
  /\ call.fn = "none"
  /\ \E filePath \in MovedFiles, newName \in NewNames,
        taken \in SUBSET TakenPaths :
       LET disk == taken \cup {filePath}
       IN call' = [fn |-> "moveFile",
                   arg |-> [filePath |-> filePath, newName |-> newName,
                            disk |-> disk],
                   target |-> MakeFilePathInDir(<<"pruned">>,
                                IF newName = NoName THEN filePath
                                ELSE newName),
                   res |-> MoveFile(filePath, <<"pruned">>, newName, disk)]
  /\ UNCHANGED <<runVars, ovt, hook>>

(* ----------------------- moveFile, step by step ------------------------ *)
\* the folders given to moveFile: the working directory and the folder of
\* the pruned sidecars
MoveFolders == {<<>>, <<"pruned">>}

\* moveFile is called: newFilePath is made, and a source that is its own
\* destination is returned at once; the source file may be missing
MoveFileStart ==
  /\ call.fn = "none"
  /\ \E filePath \in MovedFiles, folderName \in MoveFolders,
        newName \in NewNames, taken \in SUBSET TakenPaths,
        found \in BOOLEAN :
       LET disk == taken \cup (IF found THEN {filePath} ELSE {})
           newFilePath ==
             MakeFilePathInDir(folderName,
                               IF newName = NoName THEN filePath
                               ELSE newName)
       IN call' = [fn |-> "moveFile",
                   pc |-> IF filePath = newFilePath THEN "returned"
                          ELSE "copy",
                   arg |-> [filePath |-> filePath, folderName |-> folderName,
                            disk |-> disk],
                   newFilePath |-> newFilePath,
                   disk |-> disk,
                   copies |-> {}]
  /\ UNCHANGED <<runVars, ovt, hook>>

\* the source leaves the disk before the copy is made
MoveFileCopyUnlinksFirst ==
  /\ call.fn = "moveFile" /\ call.pc = "copy"
  /\ \/ call' = [call EXCEPT !.pc = "null",
                               !.disk = @ \ {call.arg.filePath}]
     \/ /\ call.arg.filePath \in call.disk
        /\ call.newFilePath \notin call.disk
        /\ call' = [call EXCEPT !.pc = "returned",
                                !.disk = (@ \ {call.arg.filePath})
                                           \cup {call.newFilePath},
                                !.copies = @ \cup {call.newFilePath}]
  /\ UNCHANGED <<runVars, ovt, hook>>

\* makeDirs and copyFile with COPYFILE_EXCL answer: ENOENT without the
\* source and any other error return null; EEXIST on a taken path calls
\* moveFile again with the suffixed name; else the copy is on the disk
MoveFileCopy ==
  /\ call.fn = "moveFile" /\ call.pc = "copy"
  /\ \/ call' = [call EXCEPT !.pc = "null"]
     \/ /\ call.arg.filePath \in call.disk
        /\ call.newFilePath \in call.disk
        /\ LET newFilePath ==
                 MakeFilePathInDir(call.arg.folderName,
                                   SuffixedPath(call.newFilePath))
           IN call' = [call EXCEPT
                         !.newFilePath = newFilePath,
                         !.pc = IF call.arg.filePath = newFilePath
                                THEN "returned" ELSE "copy"]
     \/ /\ call.arg.filePath \in call.disk
        /\ call.newFilePath \notin call.disk
        /\ call' = [call EXCEPT !.pc = "unlink",
                                !.disk = @ \cup {call.newFilePath},
                                !.copies = @ \cup {call.newFilePath}]
  /\ UNCHANGED <<runVars, ovt, hook>>

\* unlink answers: the source is removed and newFilePath is returned, or
\* the error is printed and null is returned
MoveFileUnlink ==
  /\ call.fn = "moveFile" /\ call.pc = "unlink"
  /\ \/ call' = [call EXCEPT !.pc = "returned",
                               !.disk = @ \ {call.arg.filePath}]
     \/ call' = [call EXCEPT !.pc = "null"]
  /\ UNCHANGED <<runVars, ovt, hook>>

(* ------------------- a sidecar text, word by word ---------------------- *)
\* a text is the sequence of its words, the line feed being one of them;
\* a string that is undefined
Absent == <<Undefined>>
Newline == "\n"

\* indexOf(pattern, from) on words, from 1, and 0 where JavaScript has -1
IndexOfFrom(words, pattern, from) ==
  LET at == {i \in from..(Len(words) - Len(pattern) + 1) :
               SubSeq(words, i, i + Len(pattern) - 1) = pattern}
  IN IF at = {} THEN 0 ELSE CHOOSE i \in at : \A j \in at : i <= j
IndexOf(words, pattern) == IndexOfFrom(words, pattern, 1)

\* replace(/^(\s|\r)|(\s|\r)$/gim, ""): white space leaves both ends
TrimEnds(words) ==
  LET from == IF words # <<>> /\ Head(words) = Newline THEN 2 ELSE 1
      to == IF Len(words) >= from /\ words[Len(words)] = Newline
            THEN Len(words) - 1 ELSE Len(words)
  IN SubSeq(words, from, to)

\* the words of a text without its line feeds
RECURSIVE NoNewlines(_)
NoNewlines(words) ==
  IF words = <<>> THEN <<>>
  ELSE (IF Head(words) = Newline THEN <<>> ELSE <<Head(words)>>)
         \o NoNewlines(Tail(words))

\* parseImageParam for a string on the words of a text: the value from
\* the first place of paramName and ": " up to the end delimiter
\* that follows or, without one, to the end of the text; undefined
\* without the parameter
ParseImageParamWords(imageParams, paramName, endDelimiter) ==
  LET at == IndexOf(imageParams, paramName \o <<":">>)
      rawParamUnterminated == SubSeq(imageParams, at, Len(imageParams))
      startIndex == Len(paramName) + 2
      endIndex == IndexOfFrom(rawParamUnterminated, endDelimiter, startIndex)
  IN IF at = 0 THEN Absent
     ELSE TrimEnds(SubSeq(rawParamUnterminated, startIndex,
                          IF endIndex > 0 THEN endIndex - 1
                          ELSE Len(rawParamUnterminated)))

\* parseImageParam for a number: +value of the one word, undefined after
\* the throw on NaN
ParseImageNumberWords(imageParams, paramName) ==
  LET value == ParseImageParamWords(imageParams, paramName, <<",">>)
  IN IF value = Absent \/ Len(value) # 1 \/ IsNaN(value[1]) THEN Undefined
     ELSE ToNumber(value[1])

\* a string parameter of one word
ParseImageWord(imageParams, paramName) ==
  LET value == ParseImageParamWords(imageParams, paramName, <<",">>)
  IN IF value = Absent \/ Len(value) # 1 THEN Undefined ELSE value[1]

\* parseImageParams on the words of a sidecar, without overrides
ParseImageParamsWords(models, imageParams) ==
  LET negPromptEndIndex == IndexOf(imageParams, <<"Steps", ":">>)
      found == IndexOf(imageParams, <<"Negative", "prompt", ":">>)
      negPromptStartIndex == IF found = 0 THEN negPromptEndIndex ELSE found
      prompt == TrimEnds(SubSeq(imageParams, 1, negPromptStartIndex - 1))
      negLine == NoNewlines(SubSeq(imageParams, negPromptStartIndex,
                                   negPromptEndIndex - 1))
      negPrompt == IF found = 0 THEN negLine
                   ELSE SubSeq(negLine, 4, Len(negLine))
      restParams == SubSeq(imageParams, negPromptEndIndex, Len(imageParams))
      modelHash == ParseImageWord(restParams, <<"Model", "hash">>)
      remapped == RemapModelName(models, modelHash)
      size == ParseImageParamWords(restParams, <<"Size">>, <<",">>)
  IN [prompt |-> prompt,
      negPrompt |-> negPrompt,
      model |-> IF remapped = Undefined
                THEN ParseImageWord(restParams, <<"Model">>)
                ELSE remapped,
      modelHash |-> modelHash,
      cfgScale |-> ParseImageNumberWords(restParams, <<"CFG", "scale">>),
      seed |-> ParseImageNumberWords(restParams, <<"Seed">>),
      steps |-> ParseImageNumberWords(restParams, <<"Steps">>),
      width |-> ToNumber(size[1]),
      height |-> IF Len(size) = 3 /\ size[2] = "x" THEN ToNumber(size[3])
                 ELSE Undefined,
      template |-> ParseImageParamWords(restParams, <<"Template">>,
                                        <<"Negative", "Template">>),
      negTemplate |-> ParseImageParamWords(restParams,
                                           <<"Negative", "Template">>,
                                           <<"\r">>)]

\* the sidecar that txt2Img returns for a record: the text of the remote
\* service, then the line of the template and the line of the negative
\* template, each for a value that is not empty
SidecarText(params) ==
  params.prompt \o <<Newline>>
    \o (IF params.negPrompt = <<>> THEN <<>>
        ELSE <<"Negative", "prompt", ":">> \o params.negPrompt
               \o <<Newline>>)
    \o <<"Steps", ":", params.steps, ",",
         "CFG", "scale", ":", params.cfgScale, ",",
         "Seed", ":", params.seed, ",",
         "Size", ":", params.width, "x", params.height, ",",
         "Model", "hash", ":", params.modelHash, ",",
         "Model", ":", params.model, ",",
         "Version", ":", "v1">>
    \o (IF params.template \in {Absent, <<>>} THEN <<>>
        ELSE <<Newline, "Template", ":">> \o params.template)
    \o (IF params.negTemplate \in {Absent, <<>>} THEN <<>>
        ELSE <<Newline, "Negative", "Template", ":">> \o params.negTemplate)

\* the records of the round trip
KnownRecords ==
  [prompt : {<<"p">>, <<"p", ",", "q">>},
   negPrompt : {<<>>, <<"n">>},
   model : {"a"}, modelHash : {"ha"},
   cfgScale : {"7"}, seed : {"1", "30"}, steps : {"20"},
   width : {"512"}, height : {"512"},
   template : {Absent, <<"t">>, <<"t", ",", "v">>},
   negTemplate : {Absent, <<"u">>}]

\* a sidecar is written from a record and parsed
RoundTripCall ==
  /\ call.fn = "none"
  /\ \E params \in KnownRecords :
       call' = [fn |-> "roundTrip",
                arg |-> params,
                text |-> SidecarText(params),
                res |-> ParseImageParamsWords(Models, SidecarText(params))]
  /\ UNCHANGED <<runVars, ovt, hook>>

(* ----------------------- the blocks of the request --------------------- *)
\* env.TILED_DIFFUSION / env.TILED_VAE: configured or not
EnvConfigs == {Missing} \cup {TiledConfig(b) : b \in BOOLEAN}
\* overrides.tiledDiffusion / overrides.tiledVAE: none, one without the
\* flag, or one with it
OverrideConfigs ==
  {Missing, Obj([k \in {} |-> TRUE])} \cup {TiledConfig(b) : b \in BOOLEAN}

\* parseImageParams: (override ?? default) ? { enabled: override?.enabled
\* ?? default.enabled, ... } : undefined; threw is true for the read of a
\* field of a default that is not configured
ParseTiled(override, default) ==
  LET chosen == IF override # Missing THEN override ELSE default
      own == override # Missing /\ "enabled" \in DOMAIN override.v
  IN IF chosen = Missing THEN [threw |-> FALSE, value |-> Missing]
     ELSE IF own
       THEN [threw |-> FALSE, value |-> TiledConfig(override.v["enabled"])]
       ELSE IF default = Missing THEN [threw |-> TRUE, value |-> Missing]
            ELSE [threw |-> FALSE,
                  value |-> TiledConfig(default.v["enabled"])]

\* parseImageParams: overrides.aDetailer ? { ..., enabled: true } :
\* undefined
ParseADetailer(override) ==
  IF override THEN TiledConfig(TRUE) ELSE Missing

\* imageParams.x?.enabled
Enabled(config) == config # Missing /\ config.v["enabled"]

\* createRequest: the keys of alwayson_scripts whose value is not
\* undefined
CreateRequest(imageParams) ==
  (IF Enabled(imageParams.aDetailer) THEN {"ADetailer"} ELSE {})
    \cup (IF imageParams.cutoffEnabled THEN {"Cutoff"} ELSE {})
    \cup (IF Enabled(imageParams.tiledDiffusion) THEN {"Tiled Diffusion"}
          ELSE {})
    \cup (IF Enabled(imageParams.tiledVAE) THEN {"Tiled VAE"} ELSE {})

\* a record is assembled under a configuration and its request is built
CreateRequestCall ==
  /\ call.fn = "none"
  /\ \E aDetailer, cutoffEnabled \in BOOLEAN,
        envDiffusion, envVAE \in EnvConfigs,
        diffusion, vae \in OverrideConfigs :
       LET tiledDiffusion == ParseTiled(diffusion, envDiffusion)
           tiledVAE == ParseTiled(vae, envVAE)
           imageParams == [aDetailer |-> ParseADetailer(aDetailer),
                           cutoffEnabled |-> cutoffEnabled,
                           tiledDiffusion |-> tiledDiffusion.value,
                           tiledVAE |-> tiledVAE.value]
       IN /\ ~tiledDiffusion.threw
          /\ ~tiledVAE.threw
          /\ call' = [fn |-> "createRequest",
                      arg |-> imageParams,
                      threw |-> CreateRequestThrows(imageParams),
                      res |-> IF CreateRequestThrows(imageParams) THEN {}
                              ELSE CreateRequest(imageParams)]
  /\ UNCHANGED <<runVars, ovt, hook>>

(* ----------------------- the writes of the products -------------------- *)
\* the modelHash-seed prefixes of the records of a run
Prefixes == {"ha-1", "ha-30"}
\* the image generated for the record at a place of the list
Generated == <<"g1", "g2", "g3", "g4">>
\* the files that a product folder can hold: the product of a prefix, as
\* written or with a number after its name
ProductPaths == [prefix : Prefixes, num : 0..MaxCopies]

\* reproduce / upscale: the path of the product of a record, in the folder
\* of its prefix under the name of its prefix
ProductPath(prefix) == [prefix |-> prefix, num |-> 0]

\* writeFilesToFolder: fs.writeFile replaces the file of the path
WriteFilesToFolder(disk, path, content) == [disk EXCEPT ![path] = content]

\* the disk after the products of the records from place i on are written,
\* one after the other
RECURSIVE WriteProducts(_, _, _)
WriteProducts(disk, prefixes, i) ==
  IF i > Len(prefixes) THEN disk
  ELSE WriteProducts(WriteFilesToFolder(disk, ProductPath(prefixes[i]),
                                        Generated[i]),
                     prefixes, i + 1)

\* a run writes its products into folders that may hold the product of an
\* earlier run
WriteProductsCall ==
  /\ call.fn = "none"
  /\ \E prefixes \in UNION {[1..n -> Prefixes] : n \in 1..MaxItems},
        earlier \in SUBSET Prefixes :
       LET disk == [path \in ProductPaths |->
                      IF path.num = 0 /\ path.prefix \in earlier
                      THEN "earlier" ELSE ""]
       IN call' = [fn |-> "writeFilesToFolder",
                   arg |-> [prefixes |-> prefixes, disk |-> disk],
                   res |-> WriteProducts(disk, prefixes, 1)]
  /\ UNCHANGED <<runVars, ovt, hook>>

NextCalls ==
  \/ ApiCall
  \/ ParseCall
  \/ ParseAndSortCall
  \/ DotKeysCall
  \/ MoveFileCall
  \/ RoundTripCall
  \/ CreateRequestCall
  \/ WriteProductsCall

InitCalls ==
  /\ Quiet
  /\ call = [fn |-> "none"]
  /\ ovt = [phase |-> "idle"]
  /\ hook = Armed

SpecCalls == InitCalls /\ [][NextCalls]_vars

\* moveFile alone, step by step
NextMove ==
  \/ MoveFileStart
  \/ MoveFileCopy
  \/ MoveFileUnlink

SpecMove == InitCalls /\ [][NextMove]_vars

(* ----------------------------- Restore Faces -------------------------- *)
\* what happens to a file of a Restore Faces run: its faces are restored,
\* the remote call fails, the image cannot be read, or the sidecar cannot
\* be parsed
FaceFates == {"restored", "remote", "image", "sidecar"}
\* the keys of RESTORE_FACES_TYPES
RestoreFacesTypes == {"ADETAILER", "CODEFORMER", "GFPGAN"}

\* handleCompletion: "done" is emitted when the two counts add up to
\* totalCount; the queue goes on with the next function
HandleCompletion(c) ==
  [c EXCEPT !.done = IF c.completedCount + c.errorCount = Len(c.fates)
                     THEN @ + 1 ELSE @,
            !.at = @ + 1,
            !.pc = IF c.at < Len(c.fates) THEN "parse" ELSE "idle"]

\* restoreFaces is called: without files "done" is emitted at once; else
\* the method is asked for and a function is queued for each file
FacesStart ==
  /\ call.fn = "none"
  /\ \E fates \in UNION {[1..n -> FaceFates] : n \in 0..MaxItems},
        type \in RestoreFacesTypes :
       call' = [fn |-> "restoreFaces", fates |-> fates,
                type |-> IF fates = <<>> THEN Undefined ELSE type,
                at |-> 1, parsed |-> FALSE,
                pc |-> IF fates = <<>> THEN "idle" ELSE "parse",
                completedCount |-> 0, errorCount |-> 0,
                done |-> IF fates = <<>> THEN 1 ELSE 0]
  /\ UNCHANGED <<runVars, ovt, hook>>

\* parseImageParams returns the record, or undefined for a sidecar that
\* cannot be parsed
FacesParsed ==
  /\ call.fn = "restoreFaces" /\ call.pc = "parse"
  /\ call' = [call EXCEPT !.parsed = call.fates[call.at] # "sidecar",
                          !.pc = "read"]
  /\ UNCHANGED <<runVars, ovt, hook>>

\* the image is read and GenerationQueue.restoreFaces is called: a read
\* that fails, and imageParams.fileName of undefined, throw to the catch
\* of the queued function, which counts nothing
FacesRead ==
  /\ call.fn = "restoreFaces" /\ call.pc = "read"
  /\ call' = IF call.fates[call.at] = "image" \/ ~call.parsed
             THEN HandleCompletion(call)
             ELSE [call EXCEPT !.pc = "post"]
  /\ UNCHANGED <<runVars, ovt, hook>>

\* the remote call answers: a failure is counted and thrown to the catch
FacesPosted ==
  /\ call.fn = "restoreFaces" /\ call.pc = "post"
  /\ call' = IF call.fates[call.at] = "remote"
             THEN HandleCompletion([call EXCEPT !.errorCount = @ + 1])
             ELSE [call EXCEPT !.pc = "write"]
  /\ UNCHANGED <<runVars, ovt, hook>>

\* the restored pair is written and the file is counted as completed
FacesWritten ==
  /\ call.fn = "restoreFaces" /\ call.pc = "write"
  /\ call' = HandleCompletion([call EXCEPT !.completedCount = @ + 1])
  /\ UNCHANGED <<runVars, ovt, hook>>

NextFaces ==
  \/ FacesStart
  \/ FacesParsed
  \/ FacesRead
  \/ FacesPosted
  \/ FacesWritten

SpecFaces == InitCalls /\ [][NextFaces]_vars

(* ------------------ parseImageParams and its file read ----------------- *)
\* the most reads of one sidecar that fail for want of file descriptors
MaxEmfile == 2

\* what parseImageParams returns once the read has not failed with EMFILE:
\* undefined for a file that cannot be read, as for any other throw
ReadAndParse(arg) ==
  IF arg.readable
  THEN ParseImageParams(Models, arg.sidecar.overrides, arg.sidecar.text)
  ELSE [parsed |-> FALSE]

\* parseImageParams is called and asks for the file
ReadStart ==
  /\ call.fn = "none"
  /\ \E sidecar \in Sidecars, readable \in BOOLEAN :
       call' = [fn |-> "parseImageParams", pc |-> "reading",
                arg |-> [sidecar |-> sidecar, readable |-> readable],
                emfile |-> 0, reported |-> FALSE]
  /\ UNCHANGED <<runVars, ovt, hook>>

\* a read that fails with EMFILE ends the call as any other error does
ReadEmfileGivesUp ==
  /\ call.fn = "parseImageParams" /\ call.pc = "reading"
  /\ call.emfile < MaxEmfile
  /\ call' = [fn |-> "parseImageParams", pc |-> "done", arg |-> call.arg,
              emfile |-> call.emfile + 1, reported |-> TRUE,
              res |-> [parsed |-> FALSE]]
  /\ UNCHANGED <<runVars, ovt, hook>>

\* the read fails with EMFILE: the catch returns sleep(2000).then(...) and
\* prints nothing
ReadEmfile ==
  /\ call.fn = "parseImageParams" /\ call.pc = "reading"
  /\ call.emfile < MaxEmfile
  /\ call' = [call EXCEPT !.pc = "sleeping", !.emfile = @ + 1]
  /\ UNCHANGED <<runVars, ovt, hook>>

\* the timer fires: parseImageParams is called again with the same
\* arguments and asks for the file
SleepDone ==
  /\ call.fn = "parseImageParams" /\ call.pc = "sleeping"
  /\ call' = [call EXCEPT !.pc = "reading"]
  /\ UNCHANGED <<runVars, ovt, hook>>

\* the read answers with the text or with another error: the record is
\* returned, or the error is printed and undefined is returned
ReadDone ==
  /\ call.fn = "parseImageParams" /\ call.pc = "reading"
  /\ call' = [fn |-> "parseImageParams", pc |-> "done", arg |-> call.arg,
              emfile |-> call.emfile,
              reported |-> ~ReadAndParse(call.arg).parsed,
              res |-> ReadAndParse(call.arg)]
  /\ UNCHANGED <<runVars, ovt, hook>>

NextRead ==
  \/ ReadStart
  \/ ReadEmfile
  \/ SleepDone
  \/ ReadDone

SpecRead == InitCalls /\ [][NextRead]_vars
\* timers fire and reads answer
SpecReadFair == SpecRead /\ WF_vars(NextRead)

(* --------------------------- createOverridesTree ----------------------- *)
\* a path as the sequence of its names; the directories of the model,
\* <<>> being the working directory "."
PathPool ==
  {<<"a.txt">>, <<"sub", "a.txt">>, <<"sub", "b.txt">>,
   <<"sub", "deep", "c.txt">>}
Dirs == {<<>>, <<"sub">>, <<"sub", "deep">>}
DirTag(dir) == Len(dir) + 1

\* path.extname(name).length > 0
HasExt(name) == name \in {"a.txt", "b.txt", "c.txt", "v1.5"}

\* the override files a directory can hold, as parsed by JSON.parse: the
\* values name the directory
Entry(key, dir) == [key |-> key, value |-> Num(DirTag(dir))]
DirFiles(dir) ==
  {<<Entry(<<"steps">>, dir)>>,
   <<Entry(<<"steps">>, dir), Entry(<<"a", ".", "b">>, dir)>>,
   <<Entry(<<"a", ".", "c">>, dir)>>}
Disks ==
  UNION {{f \in [D -> UNION {DirFiles(d) : d \in Dirs}] :
            \A d \in D : f[d] \in DirFiles(d)} : D \in SUBSET Dirs}
PathLists ==
  {ps \in UNION {[1..n -> PathPool] : n \in 1..MaxPaths} :
     \A i, j \in DOMAIN ps : i # j => ps[i] # ps[j]}

\* loadTxt2ImgOverrides: {} without a file or when dotKeysToTree throws
LoadTxt2ImgOverrides(disk, dirPath) ==
  IF dirPath \notin DOMAIN disk THEN EmptyObject
  ELSE LET r == DotKeysToTree(disk[dirPath])
       IN IF r.ok THEN r.obj ELSE EmptyObject

\* a merge in which the value of the parent wins
MergeParentWins(parentOverrides, own) ==
  [k \in DOMAIN parentOverrides \cup DOMAIN own |->
     IF k \in DOMAIN parentOverrides THEN parentOverrides[k] ELSE own[k]]

\* { ...parentOverrides, ...own }
Merge(parentOverrides, own) ==
  [k \in DOMAIN parentOverrides \cup DOMAIN own |->
     IF k \in DOMAIN own THEN own[k] ELSE parentOverrides[k]]

\* createTree: the nodes of the tree of the paths, each named by its path
NodesOf(paths) ==
  UNION {{SubSeq(paths[i], 1, n) : n \in 1..Len(paths[i])} :
           i \in DOMAIN paths}
Children(paths, node) ==
  {nd \in NodesOf(paths) :
     Len(nd) = Len(node) + 1 /\ SubSeq(nd, 1, Len(node)) = node}
Front(path) == SubSeq(path, 1, Len(path) - 1)
Last(path) == path[Len(path)]

\* the calls of createOverridesTreeNode started for the children of a node
Tasks(paths, node, overrides) ==
  {[node |-> nd, parentOverrides |-> overrides] : nd \in Children(paths, node)}

\* the read of an override file that exists is counted
Read(reads, disk, dirPath) ==
  IF dirPath \in DOMAIN disk
  THEN [reads EXCEPT ![dirPath] = reads[dirPath] + 1]
  ELSE reads

\* createOverridesTree is called: the tree of the paths is built and the
\* override file of the working directory is awaited
InitOverrides ==
  /\ Quiet
  /\ call = [fn |-> "none"]
  /\ hook = Armed
  /\ ovt \in {[phase |-> "root", paths |-> ps, disk |-> dk, tree |-> <<>>,
                pending |-> {}, reads |-> [d \in Dirs |-> 0],
                result |-> <<>>] : ps \in PathLists, dk \in Disks}

\* createOverridesTree: the file of the working directory is loaded; the
\* tree starts with its group and a call is started for each top node
RootLoaded ==
  /\ ovt.phase = "root"
  /\ LET overrides == LoadTxt2ImgOverrides(ovt.disk, <<>>)
     IN ovt' = [ovt EXCEPT
                  !.phase = "nodes",
                  !.reads = Read(ovt.reads, ovt.disk, <<>>),
                  !.tree = <<[dirPath |-> <<>>, overrides |-> overrides,
                              fileNames |-> <<>>]>>,
                  !.pending = Tasks(ovt.paths, <<>>, overrides)]
  /\ UNCHANGED <<runVars, call, hook>>

\* createOverridesTreeNode: the file of the node's directory is loaded;
\* the node joins or starts the group of its directory and a call is
\* started for each of its children
NodeLoaded(task) ==
  /\ ovt.phase = "nodes"
  /\ task \in ovt.pending
  /\ LET fullPath == task.node
         dirPath == IF HasExt(Last(fullPath)) THEN Front(fullPath)
                    ELSE fullPath
         overrides == Merge(task.parentOverrides,
                            LoadTxt2ImgOverrides(ovt.disk, dirPath))
         found == {g \in DOMAIN ovt.tree : ovt.tree[g].dirPath = dirPath}
         tree == IF fullPath # dirPath
                 THEN IF found # {}
                      THEN LET g == CHOOSE x \in found :
                                      \A y \in found : x <= y
                           IN [ovt.tree EXCEPT
                                 ![g].fileNames = Append(@, Last(fullPath))]
                      ELSE Append(ovt.tree,
                                  [dirPath |-> dirPath,
                                   overrides |-> overrides,
                                   fileNames |-> <<Last(fullPath)>>])
                 ELSE IF found = {}
                      THEN Append(ovt.tree,
                                  [dirPath |-> dirPath,
                                   overrides |-> overrides,
                                   fileNames |-> <<>>])
                      ELSE ovt.tree
     IN ovt' = [ovt EXCEPT
                  !.reads = Read(ovt.reads, ovt.disk, dirPath),
                  !.tree = tree,
                  !.pending = (ovt.pending \ {task})
                                \cup Tasks(ovt.paths, fullPath, overrides)]
  /\ UNCHANGED <<runVars, call, hook>>

\* the groups that hold files, each with the paths of its files
RECURSIVE Groups(_)
Groups(tree) ==
  IF tree = <<>> THEN <<>>
  ELSE (IF Head(tree).fileNames = <<>> THEN <<>>
        ELSE <<[filePaths |->
                  [i \in DOMAIN Head(tree).fileNames |->
                     Append(Head(tree).dirPath, Head(tree).fileNames[i])],
                overrides |-> Head(tree).overrides]>>)
         \o Groups(Tail(tree))

\* createOverridesTree: every call of createOverridesTreeNode has settled
TreeDone ==
  /\ ovt.phase = "nodes"
  /\ ovt.pending = {}
  /\ ovt' = [ovt EXCEPT !.phase = "done", !.result = Groups(ovt.tree)]
  /\ UNCHANGED <<runVars, call, hook>>

NextOverrides ==
  \/ RootLoaded
  \/ \E task \in ovt.pending : NodeLoaded(task)
  \/ TreeDone

SpecOverrides == InitOverrides /\ [][NextOverrides]_vars

\* sidecars of a directory with a dot in its name
DottedPool ==
  {<<"a.txt">>, <<"sub", "a.txt">>, <<"v1.5", "a.txt">>,
   <<"v1.5", "b.txt">>}
DottedLists ==
  {ps \in UNION {[1..n -> DottedPool] : n \in 1..MaxPaths} :
     \A i, j \in DOMAIN ps : i # j => ps[i] # ps[j]}

\* createOverridesTree is called with such sidecars
InitDotted ==
  /\ Quiet
  /\ call = [fn |-> "none"]
  /\ hook = Armed
  /\ ovt \in {[phase |-> "root", paths |-> ps, disk |-> dk, tree |-> <<>>,
                pending |-> {}, reads |-> [d \in Dirs |-> 0],
                result |-> <<>>] : ps \in DottedLists, dk \in Disks}

SpecDotted == InitDotted /\ [][NextOverrides]_vars

(* ----------------------- claims on the pruning ------------------------- *)
\* pruneImageParams has returned in run r
Pruned(r) == \E d \in DOMAIN doneLog : doneLog[d] = [run |-> r, src |-> "prune"]

\* C23: no sidecar is parsed before the pruning has returned, a run with
\* more sidecars than images parses only after it, and after a pruning
\* every record of the list has its image
C23_PruneBeforeParse ==
  /\ [](\A r \in DOMAIN runs :
          /\ runs[r].asm # "done" => runs[r].items = <<>>
          /\ Pruned(r) =>
               \A i \in DOMAIN runs[r].items : runs[r].items[i].hasImage)
  /\ [][\A r \in DOMAIN runs :
          runs[r].asm # "done" /\ runs'[r].asm = "done" =>
            /\ Len(runs[r].params) <= runs[r].nImages
            /\ runs[r].listed > runs[r].nImages => Pruned(r)
            /\ Len(runs'[r].items) = Len(runs[r].params)
            /\ Pruned(r) =>
                 Len(runs'[r].items) = CountTrue(runs[r].params)]_vars

\* a run that listed a sidecar without image has pruned it and parsed the
\* others
C23_Witness ==
  \E r \in DOMAIN runs :
    /\ Pruned(r)
    /\ runs[r].asm = "done"
    /\ runs[r].items # <<>>
    /\ Len(runs[r].items) < runs[r].listed

(* ----------------------- claims on the model switches ------------------ *)
\* the model of the item before item i of run r, and for the first item
\* the active model that the run has read
ModelBefore(r, i) ==
  IF i = 1 THEN runs[r].rdModel ELSE runs[r].items[i - 1].model

\* C29: when the queued function of an item is called, a model-switch
\* call is issued for the item exactly if its model is not the recorded
\* active model and is in the roster; and once every item of a run whose
\* models are all in the roster has returned, there are as many
\* model-switch calls as items whose model is not that of the item before
C29_SwitchIffModelDiffers ==
  /\ [][\A r \in DOMAIN runs : \A i \in DOMAIN runs[r].items :
          ~HasEv(r, i, "start") /\ HasEv(r, i, "start")' =>
            (HasEv(r, i, "model")' <=>
               /\ NeedsModelSwitch(runs[r].items[i].model, activeModel)
               /\ ModelExists(runs[r].items[i].model))]_vars
  /\ [](\A r \in DOMAIN runs :
          /\ Attempted(r)
          /\ \A i \in DOMAIN runs[r].items :
               ModelExists(runs[r].items[i].model)
          => Len(ModelSwitchAt(r))
               = Cardinality({i \in DOMAIN runs[r].items :
                                runs[r].items[i].model # ModelBefore(r, i)}))

(* ----------------------- claims on the mirror --------------------------- *)
\* C31: while the generation request of an item is in flight, the model
\* selected on the remote service is the model of the item and the
\* decoder selected there is the one of the recorded reference
C31_MirrorAgreesAtRequest ==
  \A k \in DOMAIN chain :
    chain[k].pc = "gen" =>
      /\ remoteModel = Item(chain[k]).model
      /\ activeModel = remoteModel
      /\ remoteVAE = VaeTarget(activeVAEHash)

\* C32: for two items that follow one another in a run with the same
\* reference of a secondary decoder, no switch call of the decoder is
\* issued for the second
C32_NoSwitchForSameReference ==
  \A r \in DOMAIN runs : \A i \in DOMAIN runs[r].items :
    /\ i > 1
    /\ runs[r].items[i].vaeHash = runs[r].items[i - 1].vaeHash
    => ItemArgs(r, i, "vae") = <<>>

(* ----------------------- claims on the menu ---------------------------- *)
\* C38: after a replay operation is selected the menu is displayed again:
\* a selection is followed by a prompt of main()
C38_MenuRedisplayed == (runs # <<>>) ~> (prompts > 0)

(* ----------------------- claims on the steps of an item ----------------- *)
\* the place of a step in the order of the steps of an item
StepRank(ev) ==
  CASE ev = "start" -> 1
    [] ev = "model" -> 2
    [] ev = "vae" -> 3
    [] ev = "txt2img" -> 4
    [] ev = "faces" -> 5
    [] ev = "write" -> 6
    [] ev = "move" -> 7
    [] ev = "count" -> 8
    [] ev = "end" -> 9
\* the steps of item i of run r so far, without the notes of failed calls
Steps(r, i) ==
  SelectSeq(log, LAMBDA e : e.run = r /\ e.idx = i /\ e.ev # "failed")

\* C33: the steps of an item come in the order image check, model switch,
\* decoder switch, generation request, post-pass, write, move, count, each
\* at most once but for the calls of the decoder switch; the generation
\* request is not submitted while a switch call is outstanding, the pair
\* is moved after every write, and the count is not raised while the
\* request, the post-pass, the comparison, the write or the move is
\* outstanding
C33_StepsInOrder ==
  /\ \A r \in DOMAIN runs : \A i \in DOMAIN runs[r].items :
       LET steps == Steps(r, i)
       IN /\ \A p, q \in DOMAIN steps :
               p < q =>
                 \/ StepRank(steps[p].ev) < StepRank(steps[q].ev)
                 \/ steps[p].ev = "vae" /\ steps[q].ev = "vae"
          /\ steps # <<>> => steps[1].ev = "start"
          /\ HasEv(r, i, "faces") \/ HasEv(r, i, "write")
               => HasEv(r, i, "txt2img")
          /\ HasEv(r, i, "move") => HasEv(r, i, "write")
          /\ HasEv(r, i, "count") /\ HasEv(r, i, "write")
               => HasEv(r, i, "move")
  /\ \A k \in DOMAIN chain :
       /\ chain[k].pc \in {"model", "vae1", "vae2", "vae3"}
            => ~HasEv(chain[k].run, chain[k].idx, "txt2img")
       /\ chain[k].pc \in {"gen", "faces", "compare", "write", "move"}
            => ~HasEv(chain[k].run, chain[k].idx, "count")

\* an item has gone through every step: both switches, the request, the
\* post-pass, the write, the move and the count
C33_Witness ==
  \E r \in DOMAIN runs : \E i \in DOMAIN runs[r].items :
    /\ HasEv(r, i, "model") /\ HasEv(r, i, "vae")
    /\ HasEv(r, i, "faces") /\ HasEv(r, i, "move")
    /\ HasEv(r, i, "count")

(* ----------------------- claims on the exit hook ----------------------- *)
\* C24: the exit hook sends the interrupt call exactly when the queue
\* holds a function that has not returned, and then the process exits
\* only after the call has answered; with an idle queue no interrupt call
\* is made
C24_InterruptIffPending ==
  /\ hook.pc = "armed" => hook.interrupt = "none"
  /\ hook.pc # "armed" => (hook.interrupt # "none" <=> hook.queued > 0)
  /\ hook.pc = "interrupting" => hook.interrupt = "sent"
  /\ hook.pc = "exited" /\ hook.queued > 0 => hook.interrupt = "answered"

\* the process has exited after the answer to an interrupt call that was
\* sent while an item had its generation request in flight
C24_Witness ==
  /\ hook.pc = "exited"
  /\ hook.interrupt = "answered"
  /\ hook.queued > 0
  /\ \E k \in DOMAIN chain : chain[k].pc = "gen"

(* ------------------- claims on the client and the assembler ------------ *)
\* C14: apiCall throws only when withThrow is set; a call that succeeds
\* returns {success: true, data}; a call that fails returns
\* {success: false, error}, the error being the fixed "not connected"
\* message for a refused connection
C14_ApiCallEnvelope ==
  call.fn = "apiCall" =>
    LET outcome == call.arg.outcome
        withThrow == call.arg.withThrow
        res == call.res
    IN /\ res.kind = "throw" => withThrow /\ ~outcome.ok
       /\ outcome.ok
            => res = [kind |-> "return",
                      value |-> [success |-> TRUE, data |-> outcome.data]]
       /\ ~outcome.ok /\ ~withThrow
            => /\ res.kind = "return"
               /\ res.value.success = FALSE
               /\ Includes(outcome.message, "ECONNREFUSED")
                    => res.value.error = NotConnected
               /\ ~Includes(outcome.message, "ECONNREFUSED")
                    => res.value.error = outcome.stack

\* a refused connection without withThrow has returned the fixed message
C14_Witness ==
  /\ call.fn = "apiCall"
  /\ ~call.arg.outcome.ok
  /\ Includes(call.arg.outcome.message, "ECONNREFUSED")
  /\ ~call.arg.withThrow
  /\ call.res = [kind |-> "return",
                 value |-> [success |-> FALSE, error |-> NotConnected]]

\* C15: for every overridable field, the model reference included, the
\* assembled record holds the override when the override set has one and
\* the value derived from the text when it has none
C15_OverrideWins ==
  call.fn = "parseImageParams" /\ call.res.parsed =>
    \A key \in OverrideKeys :
      LET value == call.res.params[RecordField(key)]
          derived == ParseImageParams(Models, NoOverrides, call.arg.text)
      IN IF key \in DOMAIN call.arg.overrides
         THEN value = call.arg.overrides[key]
         ELSE value = derived.params[RecordField(key)]

\* the value found in obj along keys
RECURSIVE Lookup(_, _)
Lookup(obj, keys) ==
  IF Head(keys) \notin DOMAIN obj THEN Missing
  ELSE IF Len(keys) = 1 THEN obj[Head(keys)]
  ELSE IF obj[Head(keys)].t = "obj"
       THEN Lookup(obj[Head(keys)].v, Tail(keys))
       ELSE Missing

\* found holds value: the same number, or an object with every key of
\* value holding what it holds in value
RECURSIVE Holds(_, _)
Holds(found, value) ==
  /\ found.t = value.t
  /\ IF value.t = "num" THEN found.v = value.v
     ELSE \A k \in DOMAIN value.v :
            k \in DOMAIN found.v /\ Holds(found.v[k], value.v[k])

\* C17: every key of an override file is found in the expanded object
\* along the names of its dot-path, a key without dots under its own
\* name, and no key is lost to another
C17_NoKeyLost ==
  call.fn = "dotKeysToTree" =>
    /\ call.res.ok
    /\ \A i \in DOMAIN call.arg :
         Holds(Lookup(call.res.obj, Split(call.arg[i].key)),
               call.arg[i].value)

\* a record has a secondary-decoder reference
HasReference(params) == params.vaeHash \notin {"", "None"}

\* C19: the records returned are ordered by model, and among the records
\* of one model those with a reference come before those without one, the
\* references being in lexicographic order
C19_ReferenceBeforeNone ==
  call.fn = "parseAndSortImageParams" =>
    \A i, j \in DOMAIN call.res :
      i < j =>
        LET a == call.res[i]
            b == call.res[j]
        IN /\ LocaleCompare(a.model, b.model) <= 0
           /\ a.model = b.model
                => /\ HasReference(b) => HasReference(a)
                   /\ HasReference(a) /\ HasReference(b)
                        => LocaleCompare(a.vaeHash, b.vaeHash) <= 0

\* a sidecar of the model has every required parameter but, possibly,
\* "Size" and "Seed"
ValidSidecar(sidecar) ==
  /\ "Size" \in DOMAIN sidecar.text
  /\ "Seed" \in DOMAIN sidecar.text \/ "seed" \in DOMAIN sidecar.overrides

\* C20: the list returned holds a record for every valid sidecar and none
\* for a sidecar without "Seed" and without a seed override
C20_SeedlessExcluded ==
  call.fn = "parseAndSortImageParams" =>
    /\ \A i \in DOMAIN call.res : call.res[i].seed # Undefined
    /\ Len(call.res)
         = Cardinality({i \in DOMAIN call.arg : ValidSidecar(call.arg[i])})

\* a field of a record holds a number
IsNumber(value) == value \notin {Undefined, "NaN"}

\* C21: every record of the list returned has a seed, steps, a cfgScale,
\* a width and a height that are numbers
C21_NumericFieldsValid ==
  call.fn = "parseAndSortImageParams" =>
    \A i \in DOMAIN call.res :
      /\ IsNumber(call.res[i].seed)
      /\ IsNumber(call.res[i].steps)
      /\ IsNumber(call.res[i].cfgScale)
      /\ IsNumber(call.res[i].width)
      /\ IsNumber(call.res[i].height)

\* a sidecar from which parseImageParams assembles a record with a model
Sound(sidecar) ==
  LET p == ParseImageParams(Models, sidecar.overrides, sidecar.text)
  IN p.parsed /\ p.params.model # Undefined

\* C22: parseAndSortImageParams does not throw, whatever single sidecar
\* is bad, and returns a record for each of the others
C22_NeverThrows ==
  call.fn = "parseAndSortImageParams" =>
    /\ ~call.threw
    /\ Len(call.res)
         >= Cardinality({i \in DOMAIN call.arg : Sound(call.arg[i])})

(* ----------------------- claims on the round trip ---------------------- *)
\* C28: the record parsed from the sidecar written for a record has the
\* prompt, the negative prompt, the numbers, the template and the
\* negative template of that record, also with one of the two templates
\* alone
C28_RoundTrip ==
  call.fn = "roundTrip" => call.res = call.arg

(* ----------------------- claims on the request body -------------------- *)
\* C30: the request is built for every record that the assembler returns,
\* with the block of each extension exactly when the flag of the
\* extension is set; for a record without configuration of the two
\* tiling extensions it is built without their blocks
C30_BlocksFollowFlags ==
  call.fn = "createRequest" =>
    /\ ~call.threw
    /\ "ADetailer" \in call.res <=> Enabled(call.arg.aDetailer)
    /\ "Cutoff" \in call.res <=> call.arg.cutoffEnabled
    /\ "Tiled Diffusion" \in call.res <=> Enabled(call.arg.tiledDiffusion)
    /\ "Tiled VAE" \in call.res <=> Enabled(call.arg.tiledVAE)

(* ----------------------- claims on the products ------------------------ *)
\* C34: after the writes of a run every file that was in a product folder
\* holds what it held, and the product of every record of the run is in
\* a file of the folder of its prefix
C34_ProductsKept ==
  call.fn = "writeFilesToFolder" =>
    /\ \A path \in ProductPaths :
         call.arg.disk[path] # "" => call.res[path] = call.arg.disk[path]
    /\ \A i \in DOMAIN call.arg.prefixes :
         \E path \in ProductPaths :
           /\ path.prefix = call.arg.prefixes[i]
           /\ call.res[path] = Generated[i]

(* ----------------------- claims on moveFile ---------------------------- *)
\* C25: a move to a taken path does not fail and overwrites nothing: the
\* file gets the first free name among the base name with " (1)",
\* " (2)", ... in the directory of the taken path, and that path is
\* returned
C25_SuffixInSameDirectory ==
  call.fn = "moveFile" /\ call.target \in call.arg.disk =>
    /\ call.res.path \notin call.arg.disk
    /\ call.res.disk
         = (call.arg.disk \ {call.arg.filePath}) \cup {call.res.path}
    /\ call.res.path.dir = call.target.dir
    /\ call.res.path.base = call.target.base
    /\ call.res.path.ext = call.target.ext
    /\ call.res.path.num > 0
    /\ \A num \in 1..(call.res.path.num - 1) :
         [call.target EXCEPT !.num = num] \in call.arg.disk

\* C35: moveFile loses nothing: at each step the content of a source that
\* was there is at the source or in a copy at the destination, the
\* source is removed only with its copy at newFilePath, the other files
\* stay, and a call that returns null has removed no file
C35_MoveLosesNothing ==
  call.fn = "moveFile" =>
    /\ call.arg.filePath \in call.arg.disk =>
         \/ call.arg.filePath \in call.disk
         \/ /\ call.newFilePath \in call.copies
            /\ call.newFilePath \in call.disk
    /\ call.arg.disk \ {call.arg.filePath} \subseteq call.disk
    /\ call.pc = "null" => call.arg.disk \subseteq call.disk

\* a call has returned null after a taken path made it call itself and
\* the copy under the suffixed name was made
C35_Witness ==
  /\ call.fn = "moveFile"
  /\ call.pc = "null"
  /\ call.newFilePath.num > 0
  /\ call.newFilePath \in call.copies

(* ----------------------- claims on Restore Faces ---------------------- *)
\* C37: once every file of a Restore Faces run has been attempted, the
\* two counts add up to the number of files and "done" has been emitted
\* once; it is never emitted twice
C37_CountsAddUp ==
  call.fn = "restoreFaces" =>
    /\ call.done <= 1
    /\ call.pc = "idle" =>
         /\ call.completedCount + call.errorCount = Len(call.fates)
         /\ call.done = 1

(* ----------------------- claims on the file read ----------------------- *)
\* C26: a read that fails with EMFILE is tried again after the sleep and
\* prints no parse error; as the failures end, the call returns, and what
\* it returns and prints is what a call without such a failure does
C26_RetriedOnEmfile ==
  /\ [](call.fn = "parseImageParams" /\ call.emfile > 0 =>
          /\ call.pc # "done" => ~call.reported
          /\ call.pc = "done" =>
               /\ call.res = ReadAndParse(call.arg)
               /\ call.reported = ~ReadAndParse(call.arg).parsed)
  /\ (call.fn = "parseImageParams" /\ call.emfile > 0)
       ~> (call.fn = "parseImageParams" /\ call.pc = "done")

\* a record has been returned after two reads failed with EMFILE
C26_Witness ==
  /\ call.fn = "parseImageParams"
  /\ call.pc = "done"
  /\ call.emfile > 1
  /\ call.res.parsed

(* ----------------------- claims on createOverridesTree ----------------- *)
\* C36: the groups returned partition the paths given: each path given is
\* in one place of one group, and every path of a group was given
C36_GroupsPartitionInput ==
  ovt.phase = "done" =>
    LET places == {pl \in (DOMAIN ovt.result) \X (1..(MaxPaths + 2)) :
                     pl[2] \in DOMAIN ovt.result[pl[1]].filePaths}
        At(pl) == ovt.result[pl[1]].filePaths[pl[2]]
    IN /\ \A i \in DOMAIN ovt.paths :
            Cardinality({pl \in places : At(pl) = ovt.paths[i]}) = 1
       /\ \A pl \in places :
            \E i \in DOMAIN ovt.paths : At(pl) = ovt.paths[i]

\* the directories from the working directory down to dir
Ancestors(dir) == {SubSeq(dir, 1, n) : n \in 0..Len(dir)}

\* the own overrides of a directory of the call in progress
Own(dir) == LoadTxt2ImgOverrides(ovt.disk, dir)

\* the directory nearest to dir, dir included, whose own overrides define
\* key
Nearest(dir, key) ==
  CHOOSE d \in Ancestors(dir) :
    /\ key \in DOMAIN Own(d)
    /\ \A e \in Ancestors(dir) : key \in DOMAIN Own(e) => Len(e) <= Len(d)

\* the groups of the result that hold a path
GroupsOf(path) ==
  {g \in DOMAIN ovt.result :
     \E i \in DOMAIN ovt.result[g].filePaths :
       ovt.result[g].filePaths[i] = path}

\* C16: the override set returned for a sidecar defines the keys that the
\* own overrides of its directory or of a directory above it define, each
\* with the value of the nearest of them; the sidecars of one directory
\* are in one group, with one set
C16_NearestDirectoryWins ==
  ovt.phase = "done" =>
    \A p \in DOMAIN ovt.paths :
      LET path == ovt.paths[p]
          dir == Front(path)
      IN /\ Cardinality(GroupsOf(path)) = 1
         /\ \A g \in GroupsOf(path) :
              LET overrides == ovt.result[g].overrides
              IN /\ DOMAIN overrides
                      = UNION {DOMAIN Own(d) : d \in Ancestors(dir)}
                 /\ \A key \in DOMAIN overrides :
                      overrides[key] = Own(Nearest(dir, key))[key]
                 /\ \A q \in DOMAIN ovt.paths :
                      Front(ovt.paths[q]) = dir => g \in GroupsOf(ovt.paths[q])

\* two sidecars of sub have got one set, in which the steps of sub win
\* over the steps of the working directory
C16_Witness ==
  /\ ovt.phase = "done"
  /\ {<<>>, <<"sub">>} \subseteq DOMAIN ovt.disk
  /\ "steps" \in DOMAIN Own(<<>>) \cap DOMAIN Own(<<"sub">>)
  /\ \E g \in DOMAIN ovt.result :
       /\ Len(ovt.result[g].filePaths) = 2
       /\ ovt.result[g].filePaths[1] = <<"sub", "a.txt">>
       /\ ovt.result[g].filePaths[2] = <<"sub", "b.txt">>
       /\ ovt.result[g].overrides["steps"] = Num(DirTag(<<"sub">>))

\* C18: during one call of createOverridesTree the override file of a
\* directory is read at most once
C18_EachFileReadOnce ==
  ovt.phase # "idle" => \A dir \in Dirs : ovt.reads[dir] <= 1

\* the place of a path in the list given to createOverridesTree
PlaceOf(path) == CHOOSE i \in DOMAIN ovt.paths : ovt.paths[i] = path

\* C27: the calls of createOverridesTreeNode that run side by side write
\* no array in common, each group's list of files being written by one
\* call at most, and the groups returned do not depend on the order in
\* which the loads of the calls answer: the files of a group stand in the
\* order of the paths given
C27_FanOutIndependent ==
  /\ ovt.phase \in {"nodes", "done"} =>
       \A g \in DOMAIN ovt.tree : Len(ovt.tree[g].fileNames) <= 1
  /\ ovt.phase = "done" =>
       \A g \in DOMAIN ovt.result :
         \A i, j \in DOMAIN ovt.result[g].filePaths :
           i < j => PlaceOf(ovt.result[g].filePaths[i])
                      < PlaceOf(ovt.result[g].filePaths[j])

====
